---------------------------- MODULE Spec2Model ----------------------------
(***************************************************************************)
(* CFS Limit Checker (LC): the command pipe of fsw/src/lc_cmds.c as a      *)
(* state machine.  One step of the machine is one call of LC_AppPipe: a    *)
(* bus message is taken from the pipe and processed to completion.         *)
(*                                                                         *)
(* State: the actionpoint and watchpoint results tables (ARTPtr, WRTPtr),  *)
(* the application data (LC_AppData) and, as the outputs of the last call, *)
(* the events sent, the packets transmitted and the returned status.       *)
(***************************************************************************)
EXTENDS Integers, Sequences, FiniteSets, TLC

(***************************************************************************)
(* Sizes of the model.  The tables are fixed-size arrays; the counters are *)
(* explored up to a cap (see Bounded).                                     *)
(***************************************************************************)
LC_MAX_ACTIONPOINTS == 2

LC_MAX_WATCHPOINTS == 8

MaxCommands == 2

(***************************************************************************)
(* Enumerations of lc_msgdefs.h (values opaque, kept symbolic).  A field   *)
(* of a command is a byte: UndefinedByte stands for every byte value that  *)
(* is none of the enumerators.                                             *)
(***************************************************************************)
LC_STATE_ACTIVE == "LC_STATE_ACTIVE"
LC_STATE_PASSIVE == "LC_STATE_PASSIVE"
LC_STATE_DISABLED == "LC_STATE_DISABLED"

LC_APSTATE_ACTION_NOT_USED == "LC_APSTATE_ACTION_NOT_USED"
LC_APSTATE_ACTIVE == "LC_APSTATE_ACTIVE"
LC_APSTATE_PASSIVE == "LC_APSTATE_PASSIVE"
LC_APSTATE_DISABLED == "LC_APSTATE_DISABLED"
LC_APSTATE_PERMOFF == "LC_APSTATE_PERMOFF"

LC_ACTION_STALE == "LC_ACTION_STALE"
LC_ACTION_PASS == "LC_ACTION_PASS"
LC_ACTION_FAIL == "LC_ACTION_FAIL"
LC_ACTION_ERROR == "LC_ACTION_ERROR"

LC_WATCH_STALE == "LC_WATCH_STALE"
LC_WATCH_FALSE == "LC_WATCH_FALSE"
LC_WATCH_TRUE == "LC_WATCH_TRUE"
LC_WATCH_ERROR == "LC_WATCH_ERROR"

UndefinedByte == "UNDEFINED"

LCStates == {LC_STATE_ACTIVE, LC_STATE_PASSIVE, LC_STATE_DISABLED}

APStates == {LC_APSTATE_ACTION_NOT_USED, LC_APSTATE_ACTIVE, LC_APSTATE_PASSIVE,
             LC_APSTATE_DISABLED, LC_APSTATE_PERMOFF}

ActionResults == {LC_ACTION_STALE, LC_ACTION_PASS, LC_ACTION_FAIL, LC_ACTION_ERROR}

WatchResults == {LC_WATCH_STALE, LC_WATCH_FALSE, LC_WATCH_TRUE, LC_WATCH_ERROR}

(* "All actionpoints" / "all watchpoints" index values of a command.       *)
LC_ALL_ACTIONPOINTS == 65535

LC_ALL_WATCHPOINTS == 65535

(* Message identifiers and command codes.                                  *)
LC_SAMPLE_AP_MID == "LC_SAMPLE_AP_MID"
LC_SEND_HK_MID == "LC_SEND_HK_MID"
LC_CMD_MID == "LC_CMD_MID"
MonitoredMID == "MONITORED_MID"

LC_NOOP_CC == 0

LC_RESET_CC == 1

LC_SET_LC_STATE_CC == 2

LC_SET_AP_STATE_CC == 3

LC_SET_AP_PERMOFF_CC == 4

LC_RESET_AP_STATS_CC == 5

LC_RESET_WP_STATS_CC == 6

CFE_SUCCESS == "CFE_SUCCESS"

(* Declared widths of the application counters (housekeeping layout).      *)
Inc8(x) == (x + 1) % (2 ^ 8)

(* Saturating increments of the evaluators' counters.                      *)
Sat16(x) == IF x = 2 ^ 16 - 1 THEN x ELSE x + 1

(* x = 2^32 - 1, tested on the two 16-bit halves of x.                     *)
Sat32(x) ==
    IF (x \div (2 ^ 16) = 2 ^ 16 - 1) /\ (x % (2 ^ 16) = 2 ^ 16 - 1) THEN x ELSE x + 1

APIndices == 0 .. (LC_MAX_ACTIONPOINTS - 1)
WPIndices == 0 .. (LC_MAX_WATCHPOINTS - 1)

VARIABLES
    LC_AppData,   \* CurrentLCState and the six application counters
    ARTPtr,       \* actionpoint results table: index -> LC_ARTEntry_t
    WRTPtr,       \* watchpoint results table: index -> LC_WRTEntry_t
    Events,       \* events sent while the last message was processed
    Transmitted,  \* packets transmitted while the last message was processed
    Status,       \* value returned by the last LC_AppPipe call
    Maintenance   \* LC_PerformMaintenance calls made while the last message was
                  \* processed: packets transmitted before the call, its result

vars == <<LC_AppData, ARTPtr, WRTPtr, Events, Transmitted, Status, Maintenance>>


(***************************************************************************)
(* Table entries (lc_tbl.h), padding left out.                             *)
(***************************************************************************)
LC_WRTTransition_t(Value, DataType, Seconds, Subseconds) ==
    [Value |-> Value, DataType |-> DataType,
     Seconds |-> Seconds, Subseconds |-> Subseconds]

LC_WRTEntry_t(WatchResult, CountdownToStale) ==
    [WatchResult |-> WatchResult,
     CountdownToStale |-> CountdownToStale,
     EvaluationCount |-> 0,
     FalseToTrueCount |-> 0,
     ConsecutiveTrueCount |-> 0,
     CumulativeTrueCount |-> 0,
     LastFalseToTrue |-> LC_WRTTransition_t(0, 0, 0, 0),
     LastTrueToFalse |-> LC_WRTTransition_t(0, 0, 0, 0)]

LC_ARTEntry_t(ActionResult, CurrentState) ==
    [ActionResult |-> ActionResult,
     CurrentState |-> CurrentState,
     PassiveAPCount |-> 0,
     FailToPassCount |-> 0,
     PassToFailCount |-> 0,
     ConsecutiveFailCount |-> 0,
     CumulativeFailCount |-> 0,
     CumulativeRTSExecCount |-> 0,
     CumulativeEventMsgsSent |-> 0]

(* An event as sent to the event service.  The model records its ID; Args  *)
(* are the values the code formats into its text.                          *)
Event(EventID, Args) == EventID

(***************************************************************************)
(* Bring-up: counters zero, results STALE, every actionpoint in the        *)
(* default state of its definition-table entry (any of the five), the      *)
(* application in its configured power-on state.                           *)
(***************************************************************************)
Init ==
    /\ \E lcs \in LCStates :
          LC_AppData = [CurrentLCState |-> lcs,
                        CmdCount |-> 0,
                        CmdErrCount |-> 0,
                        APSampleCount |-> 0,
                        MonitoredMsgCount |-> 0,
                        RTSExecCount |-> 0,
                        PassiveRTSExecCount |-> 0]
    /\ \E DefaultState \in [APIndices -> APStates] :
          ARTPtr = [i \in APIndices |-> LC_ARTEntry_t(LC_ACTION_STALE, DefaultState[i])]
    /\ WRTPtr = [i \in WPIndices |-> LC_WRTEntry_t(LC_WATCH_STALE, 0)]
    /\ Events = <<>>
    /\ Transmitted = <<>>
    /\ Status = CFE_SUCCESS
    /\ Maintenance = <<>>

(***************************************************************************)
(* LC_VerifyMsgLength: the message carries its actual length; LengthOK is  *)
(* "actual length = ExpectedLength".  On a mismatch the command is dropped *)
(* with a length-error event and CmdErrCount + 1 (LengthError).            *)
(***************************************************************************)
LC_VerifyMsgLength(BufPtr) == BufPtr.LengthOK

LengthError ==
    /\ LC_AppData' = [LC_AppData EXCEPT !.CmdErrCount = Inc8(@)]
    /\ Events' = <<Event("LC_LEN_ERR_EID", <<>>)>>
    /\ UNCHANGED <<ARTPtr, WRTPtr>>

(***************************************************************************)
(* Noop command                                                            *)
(***************************************************************************)
(* mutant: the command is counted without its length being verified        *)
LC_NoopCmd_IgnoresLength(BufPtr) ==
    /\ LC_AppData' = [LC_AppData EXCEPT !.CmdCount = Inc8(@)]
    /\ Events' = <<Event("LC_NOOP_INF_EID", <<>>)>>
    /\ UNCHANGED <<ARTPtr, WRTPtr>>

(* mutant: the accepted command is counted in both counters                *)
LC_NoopCmd_CountsBoth(BufPtr) ==
    IF LC_VerifyMsgLength(BufPtr)
    THEN /\ LC_AppData' = [LC_AppData EXCEPT !.CmdCount = Inc8(@), !.CmdErrCount = Inc8(@)]
         /\ Events' = <<Event("LC_NOOP_INF_EID", <<>>)>>
         /\ UNCHANGED <<ARTPtr, WRTPtr>>
    ELSE LengthError

LC_NoopCmd(BufPtr) ==
    IF LC_VerifyMsgLength(BufPtr)
    THEN /\ LC_AppData' = [LC_AppData EXCEPT !.CmdCount = Inc8(@)]
         /\ Events' = <<Event("LC_NOOP_INF_EID", <<>>)>>
         /\ UNCHANGED <<ARTPtr, WRTPtr>>
    ELSE LengthError

(***************************************************************************)
(* Reset counters command                                                  *)
(***************************************************************************)
(* mutant: the reset command counts itself like every other command        *)
LC_ResetCounters_CountsItself(AppData) ==
    [AppData EXCEPT !.CmdCount = 1,
                    !.CmdErrCount = 0,
                    !.APSampleCount = 0,
                    !.MonitoredMsgCount = 0,
                    !.RTSExecCount = 0,
                    !.PassiveRTSExecCount = 0]

LC_ResetCounters(AppData) ==
    [AppData EXCEPT !.CmdCount = 0,
                    !.CmdErrCount = 0,
                    !.APSampleCount = 0,
                    !.MonitoredMsgCount = 0,
                    !.RTSExecCount = 0,
                    !.PassiveRTSExecCount = 0]

LC_ResetCmd(BufPtr) ==
    IF LC_VerifyMsgLength(BufPtr)
    THEN /\ LC_AppData' = LC_ResetCounters(LC_AppData)
         /\ Events' = <<Event("LC_RESET_DBG_EID", <<>>)>>
         /\ UNCHANGED <<ARTPtr, WRTPtr>>
    ELSE LengthError

(***************************************************************************)
(* Set LC state command                                                    *)
(***************************************************************************)
(* mutant: the DISABLED case is missing from the switch                    *)
ValidNewLCState_NoDisabled(NewLCState) ==
    NewLCState \in {LC_STATE_ACTIVE, LC_STATE_PASSIVE}

(* the cases of the switch on NewLCState that accept the command           *)
ValidNewLCState(NewLCState) ==
    NewLCState \in {LC_STATE_ACTIVE, LC_STATE_PASSIVE, LC_STATE_DISABLED}

(* mutant: the new state is stored before it is validated                  *)
LC_SetLCStateCmd_StoresFirst(BufPtr) ==
    IF LC_VerifyMsgLength(BufPtr)
    THEN IF ValidNewLCState(BufPtr.NewLCState)
         THEN /\ LC_AppData' = [LC_AppData EXCEPT !.CurrentLCState = BufPtr.NewLCState,
                                                  !.CmdCount = Inc8(@)]
              /\ Events' = <<Event("LC_LCSTATE_INF_EID", <<BufPtr.NewLCState>>)>>
              /\ UNCHANGED <<ARTPtr, WRTPtr>>
         ELSE /\ LC_AppData' = [LC_AppData EXCEPT !.CurrentLCState = BufPtr.NewLCState,
                                                  !.CmdErrCount = Inc8(@)]
              /\ Events' = <<Event("LC_LCSTATE_ERR_EID", <<BufPtr.NewLCState>>)>>
              /\ UNCHANGED <<ARTPtr, WRTPtr>>
    ELSE LengthError

LC_SetLCStateCmd(BufPtr) ==
    IF LC_VerifyMsgLength(BufPtr)
    THEN IF ValidNewLCState(BufPtr.NewLCState)
         THEN /\ LC_AppData' = [LC_AppData EXCEPT !.CurrentLCState = BufPtr.NewLCState,
                                                  !.CmdCount = Inc8(@)]
              /\ Events' = <<Event("LC_LCSTATE_INF_EID", <<BufPtr.NewLCState>>)>>
              /\ UNCHANGED <<ARTPtr, WRTPtr>>
         ELSE /\ LC_AppData' = [LC_AppData EXCEPT !.CmdErrCount = Inc8(@)]
              /\ Events' = <<Event("LC_LCSTATE_ERR_EID", <<BufPtr.NewLCState>>)>>
              /\ UNCHANGED <<ARTPtr, WRTPtr>>
    ELSE LengthError

(***************************************************************************)
(* Set actionpoint state command                                           *)
(***************************************************************************)
(* mutant: the sanity check lets PERMOFF through                           *)
ValidNewAPState_AllowsPermOff(NewAPState) ==
    NewAPState \in {LC_APSTATE_ACTIVE, LC_APSTATE_PASSIVE, LC_APSTATE_DISABLED,
                    LC_APSTATE_PERMOFF}

(* mutant: the sanity check refuses NOT_USED and PERMOFF by name and lets  *)
(* every other byte through                                                *)
ValidNewAPState_RefusesByName(NewAPState) ==
    NewAPState \notin {LC_APSTATE_ACTION_NOT_USED, LC_APSTATE_PERMOFF}

(* the sanity check of the new state: the cases that leave ValidState true *)
ValidNewAPState(NewAPState) ==
    NewAPState \in {LC_APSTATE_ACTIVE, LC_APSTATE_PASSIVE, LC_APSTATE_DISABLED}

(* mutant: the test forgets PERMOFF                                        *)
APStateMayChange_OnlyNotUsed(CurrentAPState) ==
    CurrentAPState # LC_APSTATE_ACTION_NOT_USED

(* mutant: the test forgets NOT_USED                                       *)
APStateMayChange_OnlyPermOff(CurrentAPState) ==
    CurrentAPState # LC_APSTATE_PERMOFF

(* mutant: the test also protects DISABLED                                 *)
APStateMayChange_NotDisabled(CurrentAPState) ==
    /\ CurrentAPState # LC_APSTATE_ACTION_NOT_USED
    /\ CurrentAPState # LC_APSTATE_PERMOFF
    /\ CurrentAPState # LC_APSTATE_DISABLED

(* the test of the current state, the same for "all" and for one index     *)
APStateMayChange(CurrentAPState) ==
    /\ CurrentAPState # LC_APSTATE_ACTION_NOT_USED
    /\ CurrentAPState # LC_APSTATE_PERMOFF

(* mutant: setting the state of one actionpoint clears its consecutive    *)
(* fail count                                                              *)
LC_SetAPStateCmd_ClearsFailCount(BufPtr) ==
    IF LC_VerifyMsgLength(BufPtr)
    THEN LET APNumber   == BufPtr.APNumber
             NewAPState == BufPtr.NewAPState
             ValidState == ValidNewAPState(NewAPState)
         IN  IF ~ValidState
             THEN /\ LC_AppData' = [LC_AppData EXCEPT !.CmdErrCount = Inc8(@)]
                  /\ Events' = <<Event("LC_APSTATE_NEW_ERR_EID", <<APNumber, NewAPState>>)>>
                  /\ UNCHANGED <<ARTPtr, WRTPtr>>
             ELSE IF APNumber = LC_ALL_ACTIONPOINTS
             THEN /\ ARTPtr' = [TableIndex \in APIndices |->
                                  LET CurrentAPState == ARTPtr[TableIndex].CurrentState
                                  IN  IF APStateMayChange(CurrentAPState)
                                      THEN [ARTPtr[TableIndex] EXCEPT !.CurrentState = NewAPState]
                                      ELSE ARTPtr[TableIndex]]
                  /\ LC_AppData' = [LC_AppData EXCEPT !.CmdCount = Inc8(@)]
                  /\ Events' = <<Event("LC_APSTATE_INF_EID", <<APNumber, NewAPState>>)>>
                  /\ UNCHANGED WRTPtr
             ELSE IF APNumber < LC_MAX_ACTIONPOINTS
             THEN LET TableIndex     == APNumber
                      CurrentAPState == ARTPtr[TableIndex].CurrentState
                  IN  IF APStateMayChange(CurrentAPState)
                      THEN /\ ARTPtr' = [ARTPtr EXCEPT ![TableIndex].CurrentState = NewAPState,
                                                     ![TableIndex].ConsecutiveFailCount = 0]
                           /\ LC_AppData' = [LC_AppData EXCEPT !.CmdCount = Inc8(@)]
                           /\ Events' = <<Event("LC_APSTATE_INF_EID", <<APNumber, NewAPState>>)>>
                           /\ UNCHANGED WRTPtr
                      ELSE /\ LC_AppData' = [LC_AppData EXCEPT !.CmdErrCount = Inc8(@)]
                           /\ Events' = <<Event("LC_APSTATE_CURR_ERR_EID",
                                                <<APNumber, CurrentAPState>>)>>
                           /\ UNCHANGED <<ARTPtr, WRTPtr>>
             ELSE /\ LC_AppData' = [LC_AppData EXCEPT !.CmdErrCount = Inc8(@)]
                  /\ Events' = <<Event("LC_APSTATE_APNUM_ERR_EID", <<APNumber>>)>>
                  /\ UNCHANGED <<ARTPtr, WRTPtr>>
    ELSE LengthError

LC_SetAPStateCmd(BufPtr) ==
    IF LC_VerifyMsgLength(BufPtr)
    THEN LET APNumber   == BufPtr.APNumber
             NewAPState == BufPtr.NewAPState
             ValidState == ValidNewAPState(NewAPState)
         IN  IF ~ValidState
             THEN /\ LC_AppData' = [LC_AppData EXCEPT !.CmdErrCount = Inc8(@)]
                  /\ Events' = <<Event("LC_APSTATE_NEW_ERR_EID", <<APNumber, NewAPState>>)>>
                  /\ UNCHANGED <<ARTPtr, WRTPtr>>
             ELSE IF APNumber = LC_ALL_ACTIONPOINTS
             THEN /\ ARTPtr' = [TableIndex \in APIndices |->
                                  LET CurrentAPState == ARTPtr[TableIndex].CurrentState
                                  IN  IF APStateMayChange(CurrentAPState)
                                      THEN [ARTPtr[TableIndex] EXCEPT !.CurrentState = NewAPState]
                                      ELSE ARTPtr[TableIndex]]
                  /\ LC_AppData' = [LC_AppData EXCEPT !.CmdCount = Inc8(@)]
                  /\ Events' = <<Event("LC_APSTATE_INF_EID", <<APNumber, NewAPState>>)>>
                  /\ UNCHANGED WRTPtr
             ELSE IF APNumber < LC_MAX_ACTIONPOINTS
             THEN LET TableIndex     == APNumber
                      CurrentAPState == ARTPtr[TableIndex].CurrentState
                  IN  IF APStateMayChange(CurrentAPState)
                      THEN /\ ARTPtr' = [ARTPtr EXCEPT ![TableIndex].CurrentState = NewAPState]
                           /\ LC_AppData' = [LC_AppData EXCEPT !.CmdCount = Inc8(@)]
                           /\ Events' = <<Event("LC_APSTATE_INF_EID", <<APNumber, NewAPState>>)>>
                           /\ UNCHANGED WRTPtr
                      ELSE /\ LC_AppData' = [LC_AppData EXCEPT !.CmdErrCount = Inc8(@)]
                           /\ Events' = <<Event("LC_APSTATE_CURR_ERR_EID",
                                                <<APNumber, CurrentAPState>>)>>
                           /\ UNCHANGED <<ARTPtr, WRTPtr>>
             ELSE /\ LC_AppData' = [LC_AppData EXCEPT !.CmdErrCount = Inc8(@)]
                  /\ Events' = <<Event("LC_APSTATE_APNUM_ERR_EID", <<APNumber>>)>>
                  /\ UNCHANGED <<ARTPtr, WRTPtr>>
    ELSE LengthError

(***************************************************************************)
(* Set actionpoint permanently off command                                 *)
(***************************************************************************)
(* mutant: every actionpoint that is not active is turned off              *)
APMayBeTurnedOff_NotActive(CurrentAPState) == CurrentAPState # LC_APSTATE_ACTIVE

(* mutant: a passive actionpoint is turned off as well                     *)
APMayBeTurnedOff_OrPassive(CurrentAPState) ==
    CurrentAPState \in {LC_APSTATE_DISABLED, LC_APSTATE_PASSIVE}

(* the test of the current state: only a disabled actionpoint is turned    *)
(* permanently off                                                         *)
APMayBeTurnedOff(CurrentAPState) == CurrentAPState = LC_APSTATE_DISABLED

(* mutant: "all actionpoints" is taken as in the set-state command and     *)
(* turns every disabled actionpoint off                                    *)
LC_SetAPPermOffCmd_AllowsAll(BufPtr) ==
    IF LC_VerifyMsgLength(BufPtr)
    THEN LET APNumber == BufPtr.APNumber
         IN  IF APNumber = LC_ALL_ACTIONPOINTS
             THEN /\ ARTPtr' = [TableIndex \in APIndices |->
                                  IF APMayBeTurnedOff(ARTPtr[TableIndex].CurrentState)
                                  THEN [ARTPtr[TableIndex] EXCEPT
                                           !.CurrentState = LC_APSTATE_PERMOFF]
                                  ELSE ARTPtr[TableIndex]]
                  /\ LC_AppData' = [LC_AppData EXCEPT !.CmdCount = Inc8(@)]
                  /\ Events' = <<Event("LC_APOFF_INF_EID", <<APNumber>>)>>
                  /\ UNCHANGED WRTPtr
             ELSE IF APNumber >= LC_MAX_ACTIONPOINTS
             THEN /\ LC_AppData' = [LC_AppData EXCEPT !.CmdErrCount = Inc8(@)]
                  /\ Events' = <<Event("LC_APOFF_APNUM_ERR_EID", <<APNumber>>)>>
                  /\ UNCHANGED <<ARTPtr, WRTPtr>>
             ELSE LET TableIndex     == APNumber
                      CurrentAPState == ARTPtr[TableIndex].CurrentState
                  IN  IF ~APMayBeTurnedOff(CurrentAPState)
                      THEN /\ LC_AppData' = [LC_AppData EXCEPT !.CmdErrCount = Inc8(@)]
                           /\ Events' = <<Event("LC_APOFF_CURR_ERR_EID",
                                                <<APNumber, CurrentAPState>>)>>
                           /\ UNCHANGED <<ARTPtr, WRTPtr>>
                      ELSE /\ ARTPtr' = [ARTPtr EXCEPT
                                            ![TableIndex].CurrentState = LC_APSTATE_PERMOFF]
                           /\ LC_AppData' = [LC_AppData EXCEPT !.CmdCount = Inc8(@)]
                           /\ Events' = <<Event("LC_APOFF_INF_EID", <<APNumber>>)>>
                           /\ UNCHANGED WRTPtr
    ELSE LengthError

LC_SetAPPermOffCmd(BufPtr) ==
    IF LC_VerifyMsgLength(BufPtr)
    THEN LET APNumber == BufPtr.APNumber
         IN  IF (APNumber = LC_ALL_ACTIONPOINTS) \/ (APNumber >= LC_MAX_ACTIONPOINTS)
             THEN /\ LC_AppData' = [LC_AppData EXCEPT !.CmdErrCount = Inc8(@)]
                  /\ Events' = <<Event("LC_APOFF_APNUM_ERR_EID", <<APNumber>>)>>
                  /\ UNCHANGED <<ARTPtr, WRTPtr>>
             ELSE LET TableIndex     == APNumber
                      CurrentAPState == ARTPtr[TableIndex].CurrentState
                  IN  IF ~APMayBeTurnedOff(CurrentAPState)
                      THEN /\ LC_AppData' = [LC_AppData EXCEPT !.CmdErrCount = Inc8(@)]
                           /\ Events' = <<Event("LC_APOFF_CURR_ERR_EID",
                                                <<APNumber, CurrentAPState>>)>>
                           /\ UNCHANGED <<ARTPtr, WRTPtr>>
                      ELSE /\ ARTPtr' = [ARTPtr EXCEPT
                                            ![TableIndex].CurrentState = LC_APSTATE_PERMOFF]
                           /\ LC_AppData' = [LC_AppData EXCEPT !.CmdCount = Inc8(@)]
                           /\ Events' = <<Event("LC_APOFF_INF_EID", <<APNumber>>)>>
                           /\ UNCHANGED WRTPtr
    ELSE LengthError

(***************************************************************************)
(* Reset selected AP statistics (utility function).  The loop runs over    *)
(* StartIndex .. EndIndex; each pass writes one entry.                     *)
(***************************************************************************)
(* mutant: the utility resets result and state whoever calls it            *)
LC_ResetResultsAP_ResetsResult(ART, StartIndex, EndIndex, ResetStatsCmd, DefaultState) ==
    [TableIndex \in DOMAIN ART |->
        IF StartIndex <= TableIndex /\ TableIndex <= EndIndex
        THEN [ART[TableIndex] EXCEPT
                 !.ActionResult = LC_ACTION_STALE,
                 !.CurrentState = DefaultState[TableIndex],
                 !.PassiveAPCount = 0,
                 !.FailToPassCount = 0,
                 !.PassToFailCount = 0,
                 !.ConsecutiveFailCount = 0,
                 !.CumulativeFailCount = 0,
                 !.CumulativeRTSExecCount = 0,
                 !.CumulativeEventMsgsSent = 0]
        ELSE ART[TableIndex]]

LC_ResetResultsAP(ART, StartIndex, EndIndex, ResetStatsCmd, DefaultState) ==
    [TableIndex \in DOMAIN ART |->
        IF StartIndex <= TableIndex /\ TableIndex <= EndIndex
        THEN [ART[TableIndex] EXCEPT
                 !.ActionResult = IF ~ResetStatsCmd THEN LC_ACTION_STALE ELSE @,
                 !.CurrentState = IF ~ResetStatsCmd THEN DefaultState[TableIndex] ELSE @,
                 !.PassiveAPCount = 0,
                 !.FailToPassCount = 0,
                 !.PassToFailCount = 0,
                 !.ConsecutiveFailCount = 0,
                 !.CumulativeFailCount = 0,
                 !.CumulativeRTSExecCount = 0,
                 !.CumulativeEventMsgsSent = 0]
        ELSE ART[TableIndex]]

(***************************************************************************)
(* Reset actionpoint statistics command                                    *)
(***************************************************************************)
(* mutant: the range test is off by one (<= for <)                         *)
LC_ResetAPStatsCmd_OffByOne(BufPtr) ==
    IF LC_VerifyMsgLength(BufPtr)
    THEN LET APNumber == BufPtr.APNumber
             NoDefault == [i \in APIndices |-> LC_APSTATE_ACTION_NOT_USED]
         IN  IF APNumber = LC_ALL_ACTIONPOINTS
             THEN /\ ARTPtr' = LC_ResetResultsAP(ARTPtr, 0, LC_MAX_ACTIONPOINTS - 1,
                                                 TRUE, NoDefault)
                  /\ LC_AppData' = [LC_AppData EXCEPT !.CmdCount = Inc8(@)]
                  /\ Events' = <<Event("LC_APSTATS_INF_EID", <<APNumber>>)>>
                  /\ UNCHANGED WRTPtr
             ELSE IF APNumber <= LC_MAX_ACTIONPOINTS
             THEN /\ ARTPtr' = LC_ResetResultsAP(ARTPtr, APNumber, APNumber, TRUE, NoDefault)
                  /\ LC_AppData' = [LC_AppData EXCEPT !.CmdCount = Inc8(@)]
                  /\ Events' = <<Event("LC_APSTATS_INF_EID", <<APNumber>>)>>
                  /\ UNCHANGED WRTPtr
             ELSE /\ LC_AppData' = [LC_AppData EXCEPT !.CmdErrCount = Inc8(@)]
                  /\ Events' = <<Event("LC_APSTATS_APNUM_ERR_EID", <<APNumber>>)>>
                  /\ UNCHANGED <<ARTPtr, WRTPtr>>
    ELSE LengthError

LC_ResetAPStatsCmd(BufPtr) ==
    IF LC_VerifyMsgLength(BufPtr)
    THEN LET APNumber == BufPtr.APNumber
             NoDefault == [i \in APIndices |-> LC_APSTATE_ACTION_NOT_USED]
         IN  IF APNumber = LC_ALL_ACTIONPOINTS
             THEN /\ ARTPtr' = LC_ResetResultsAP(ARTPtr, 0, LC_MAX_ACTIONPOINTS - 1,
                                                 TRUE, NoDefault)
                  /\ LC_AppData' = [LC_AppData EXCEPT !.CmdCount = Inc8(@)]
                  /\ Events' = <<Event("LC_APSTATS_INF_EID", <<APNumber>>)>>
                  /\ UNCHANGED WRTPtr
             ELSE IF APNumber < LC_MAX_ACTIONPOINTS
             THEN /\ ARTPtr' = LC_ResetResultsAP(ARTPtr, APNumber, APNumber, TRUE, NoDefault)
                  /\ LC_AppData' = [LC_AppData EXCEPT !.CmdCount = Inc8(@)]
                  /\ Events' = <<Event("LC_APSTATS_INF_EID", <<APNumber>>)>>
                  /\ UNCHANGED WRTPtr
             ELSE /\ LC_AppData' = [LC_AppData EXCEPT !.CmdErrCount = Inc8(@)]
                  /\ Events' = <<Event("LC_APSTATS_APNUM_ERR_EID", <<APNumber>>)>>
                  /\ UNCHANGED <<ARTPtr, WRTPtr>>
    ELSE LengthError

(***************************************************************************)
(* Reset selected WP statistics (utility function)                         *)
(***************************************************************************)
LC_ResetResultsWP(WRT, StartIndex, EndIndex, ResetStatsCmd) ==
    [TableIndex \in DOMAIN WRT |->
        IF StartIndex <= TableIndex /\ TableIndex <= EndIndex
        THEN [WRT[TableIndex] EXCEPT
                 !.WatchResult = IF ~ResetStatsCmd THEN LC_WATCH_STALE ELSE @,
                 !.CountdownToStale = IF ~ResetStatsCmd THEN 0 ELSE @,
                 !.EvaluationCount = 0,
                 !.FalseToTrueCount = 0,
                 !.ConsecutiveTrueCount = 0,
                 !.CumulativeTrueCount = 0,
                 !.LastFalseToTrue.Value = 0,
                 !.LastFalseToTrue.Seconds = 0,
                 !.LastFalseToTrue.Subseconds = 0,
                 !.LastTrueToFalse.Value = 0,
                 !.LastTrueToFalse.Seconds = 0,
                 !.LastTrueToFalse.Subseconds = 0]
        ELSE WRT[TableIndex]]

(***************************************************************************)
(* Reset watchpoint statistics command                                     *)
(***************************************************************************)
LC_ResetWPStatsCmd(BufPtr) ==
    IF LC_VerifyMsgLength(BufPtr)
    THEN LET WPNumber == BufPtr.WPNumber
         IN  IF WPNumber = LC_ALL_WATCHPOINTS
             THEN /\ WRTPtr' = LC_ResetResultsWP(WRTPtr, 0, LC_MAX_WATCHPOINTS - 1, TRUE)
                  /\ LC_AppData' = [LC_AppData EXCEPT !.CmdCount = Inc8(@)]
                  /\ Events' = <<Event("LC_WPSTATS_INF_EID", <<WPNumber>>)>>
                  /\ UNCHANGED ARTPtr
             ELSE IF WPNumber < LC_MAX_WATCHPOINTS
             THEN /\ WRTPtr' = LC_ResetResultsWP(WRTPtr, WPNumber, WPNumber, TRUE)
                  /\ LC_AppData' = [LC_AppData EXCEPT !.CmdCount = Inc8(@)]
                  /\ Events' = <<Event("LC_WPSTATS_INF_EID", <<WPNumber>>)>>
                  /\ UNCHANGED ARTPtr
             ELSE /\ LC_AppData' = [LC_AppData EXCEPT !.CmdErrCount = Inc8(@)]
                  /\ Events' = <<Event("LC_WPSTATS_WPNUM_ERR_EID", <<WPNumber>>)>>
                  /\ UNCHANGED <<ARTPtr, WRTPtr>>
    ELSE LengthError

(***************************************************************************)
(* Definition tables (read-only after load).  The model's tables: every    *)
(* watchpoint watches MonitoredMID with operator ">" against 0; even       *)
(* watchpoints go stale after two sample commands, odd ones never          *)
(* (ResultAgeWhenStale = 0); even actionpoints fail when WP0 is true, odd  *)
(* ones when WP0 and WP1 are both true.                                    *)
(***************************************************************************)
WDTPtr(WatchIndex) ==
    [MessageID |-> MonitoredMID,
     OperatorID |-> "LC_OPER_GT",
     ComparisonValue |-> 0,
     ResultAgeWhenStale |-> IF WatchIndex % 2 = 0 THEN 2 ELSE 0]

RPN_WP(WatchIndex) == [Token |-> "WP", WatchIndex |-> WatchIndex]

RPN_OP(Operator) == [Token |-> Operator]

ADTPtr(APNumber) ==
    [MaxPassiveEvents |-> 1,
     MaxPassFailEvents |-> 1,
     MaxFailPassEvents |-> 1,
     RTSId |-> 7,
     MaxFailsBeforeRTS |-> 2,
     RPNEquation |-> IF APNumber % 2 = 0
                     THEN <<RPN_WP(0), RPN_OP("EQUATION_END")>>
                     ELSE <<RPN_WP(0), RPN_WP(1), RPN_OP("AND"),
                            RPN_OP("EQUATION_END")>>]

LC_MAX_RPN_EQU_SIZE == 4

(***************************************************************************)
(* RPN evaluator: three-valued logic over "T", "F" and "U" (unknown: the   *)
(* watchpoint is stale).  EQUATION_END ends the program.                   *)
(***************************************************************************)
RPN_Not(a) == IF a = "U" THEN "U" ELSE IF a = "T" THEN "F" ELSE "T"

RPN_And(a, b) ==
    IF a = "F" \/ b = "F" THEN "F"
    ELSE IF a = "U" \/ b = "U" THEN "U" ELSE "T"

RPN_Or(a, b) ==
    IF a = "T" \/ b = "T" THEN "T"
    ELSE IF a = "U" \/ b = "U" THEN "U" ELSE "F"

RPN_Xor(a, b) ==
    IF a = "U" \/ b = "U" THEN "U" ELSE IF a # b THEN "T" ELSE "F"

RPN_Equal(a, b) ==
    IF a = "U" \/ b = "U" THEN "U" ELSE IF a = b THEN "T" ELSE "F"

RECURSIVE LC_EvaluateRPN(_, _, _, _)
LC_EvaluateRPN(WRT, Equation, Position, Stack) ==
    IF Position > Len(Equation) \/ Position > LC_MAX_RPN_EQU_SIZE
    THEN LC_ACTION_ERROR
    ELSE LET Tok  == Equation[Position]
             Top  == Stack[Len(Stack)]
             Next2 == Stack[Len(Stack) - 1]
             Pop1 == SubSeq(Stack, 1, Len(Stack) - 1)
             Pop2 == SubSeq(Stack, 1, Len(Stack) - 2)
             Push(st, v) == IF Len(st) >= LC_MAX_RPN_EQU_SIZE
                            THEN LC_ACTION_ERROR
                            ELSE LC_EvaluateRPN(WRT, Equation, Position + 1, Append(st, v))
         IN  CASE Tok.Token = "EQUATION_END" ->
                     IF Len(Stack) < 1 THEN LC_ACTION_ERROR
                     ELSE IF Top = "F" THEN LC_ACTION_PASS
                     ELSE IF Top = "T" THEN LC_ACTION_FAIL
                     ELSE LC_ACTION_STALE
               [] Tok.Token = "WP" ->
                     IF Tok.WatchIndex \notin DOMAIN WRT THEN LC_ACTION_ERROR
                     ELSE LET WatchResult == WRT[Tok.WatchIndex].WatchResult
                          IN  IF WatchResult = LC_WATCH_TRUE THEN Push(Stack, "T")
                              ELSE IF WatchResult = LC_WATCH_FALSE THEN Push(Stack, "F")
                              ELSE IF WatchResult = LC_WATCH_STALE THEN Push(Stack, "U")
                              ELSE LC_ACTION_ERROR
               [] Tok.Token = "TRUE" -> Push(Stack, "T")
               [] Tok.Token = "FALSE" -> Push(Stack, "F")
               [] Tok.Token = "NOT" ->
                     IF Len(Stack) < 1 THEN LC_ACTION_ERROR
                     ELSE Push(Pop1, RPN_Not(Top))
               [] Tok.Token = "AND" ->
                     IF Len(Stack) < 2 THEN LC_ACTION_ERROR
                     ELSE Push(Pop2, RPN_And(Next2, Top))
               [] Tok.Token = "OR" ->
                     IF Len(Stack) < 2 THEN LC_ACTION_ERROR
                     ELSE Push(Pop2, RPN_Or(Next2, Top))
               [] Tok.Token = "XOR" ->
                     IF Len(Stack) < 2 THEN LC_ACTION_ERROR
                     ELSE Push(Pop2, RPN_Xor(Next2, Top))
               [] Tok.Token = "EQUAL" ->
                     IF Len(Stack) < 2 THEN LC_ACTION_ERROR
                     ELSE Push(Pop2, RPN_Equal(Next2, Top))
               [] OTHER -> LC_ACTION_ERROR

(***************************************************************************)
(* Actionpoint evaluator: sample one actionpoint.  S is the pair of the    *)
(* results table and the application data that sampling updates.           *)
(***************************************************************************)
LC_SampleSingleAP(S, WRT, APNumber) ==
    LET Entry      == S.ART[APNumber]
        Def        == ADTPtr(APNumber)
        LCState    == S.AppData.CurrentLCState
        Previous   == Entry.ActionResult
        Result     == LC_EvaluateRPN(WRT, Def.RPNEquation, 1, <<>>)
        PassToFail == Result = LC_ACTION_FAIL
                         /\ Previous \in {LC_ACTION_PASS, LC_ACTION_STALE}
        Consecutive ==
            IF Result = LC_ACTION_FAIL
            THEN IF PassToFail THEN 1 ELSE Sat32(Entry.ConsecutiveFailCount)
            ELSE IF Result = LC_ACTION_PASS THEN 0 ELSE Entry.ConsecutiveFailCount
        Transitions == IF PassToFail THEN Sat32(Entry.PassToFailCount)
                       ELSE Entry.PassToFailCount
        Trigger    == Result = LC_ACTION_FAIL /\ Consecutive = Def.MaxFailsBeforeRTS
        Sent       == Trigger /\ Transitions <= Def.MaxPassFailEvents
        Request    == Trigger /\ LCState = LC_STATE_ACTIVE
                              /\ Entry.CurrentState = LC_APSTATE_ACTIVE
        Passive    == Trigger /\ ~Request
                              /\ (LCState = LC_STATE_PASSIVE
                                  \/ Entry.CurrentState = LC_APSTATE_PASSIVE)
        Counted ==
            [Entry EXCEPT
                !.ActionResult = Result,
                !.CumulativeFailCount = IF Result = LC_ACTION_FAIL THEN Sat32(@) ELSE @,
                !.PassToFailCount = Transitions,
                !.FailToPassCount =
                    IF Result = LC_ACTION_PASS /\ Previous = LC_ACTION_FAIL
                    THEN Sat32(@) ELSE @,
                !.ConsecutiveFailCount = Consecutive,
                !.CumulativeEventMsgsSent = IF Sent THEN Sat32(@) ELSE @,
                !.CumulativeRTSExecCount = IF Request THEN Sat32(@) ELSE @,
                !.PassiveAPCount = IF Passive THEN Sat32(@) ELSE @]
    IN  [ART |-> [S.ART EXCEPT ![APNumber] = Counted],
         AppData |-> [S.AppData EXCEPT
                        !.RTSExecCount = IF Request THEN Sat16(@) ELSE @,
                        !.PassiveRTSExecCount = IF Passive THEN Sat16(@) ELSE @,
                        !.APSampleCount = Sat16(@)],
         Events |-> IF Sent
                    THEN Append(S.Events, Event("LC_AP_FAIL_EID", <<APNumber, Def.RTSId>>))
                    ELSE S.Events]

(***************************************************************************)
(* Sample the actionpoints StartIndex .. EndIndex in ascending order,      *)
(* skipping those not ACTIVE or PASSIVE and all of them while the          *)
(* application is disabled.                                                *)
(***************************************************************************)
RECURSIVE LC_SampleAPs(_, _, _, _)
LC_SampleAPs(S, WRT, StartIndex, EndIndex) ==
    IF StartIndex > EndIndex
    THEN S
    ELSE LET CurrentAPState == S.ART[StartIndex].CurrentState
             Skip == \/ CurrentAPState \in {LC_APSTATE_ACTION_NOT_USED,
                                            LC_APSTATE_DISABLED, LC_APSTATE_PERMOFF}
                     \/ S.AppData.CurrentLCState = LC_STATE_DISABLED
         IN  LC_SampleAPs(IF Skip THEN S ELSE LC_SampleSingleAP(S, WRT, StartIndex),
                          WRT, StartIndex + 1, EndIndex)

(***************************************************************************)
(* Sample Actionpoints Request                                             *)
(***************************************************************************)
(* mutant: one index with the "all" value is enough to sample every        *)
(* actionpoint                                                             *)
LC_SampleAPReq_EitherAll(BufPtr) ==
    IF LC_VerifyMsgLength(BufPtr)
    THEN IF LC_AppData.CurrentLCState # LC_STATE_DISABLED
         THEN LET StartIndex == BufPtr.StartIndex
                  EndIndex   == BufPtr.EndIndex
                  S0         == [ART |-> ARTPtr, AppData |-> LC_AppData, Events |-> <<>>]
                  All        == (StartIndex = LC_ALL_ACTIONPOINTS)
                                   \/ (EndIndex = LC_ALL_ACTIONPOINTS)
                  InRange    == (StartIndex <= EndIndex)
                                   /\ (EndIndex < LC_MAX_ACTIONPOINTS)
                  ValidSampleCmd == All \/ InRange
                  S1 == IF All
                        THEN LC_SampleAPs(S0, WRTPtr, 0, LC_MAX_ACTIONPOINTS - 1)
                        ELSE IF InRange
                        THEN LC_SampleAPs(S0, WRTPtr, StartIndex, EndIndex)
                        ELSE S0
              IN  /\ ARTPtr' = S1.ART
                  /\ LC_AppData' = S1.AppData
                  /\ Events' = IF ValidSampleCmd THEN S1.Events
                               ELSE <<Event("LC_APSAMPLE_APNUM_ERR_EID",
                                            <<StartIndex, EndIndex>>)>>
                  /\ WRTPtr' =
                        IF (BufPtr.UpdateAge # 0) /\ ValidSampleCmd
                        THEN [WatchIndex \in WPIndices |->
                                IF WRTPtr[WatchIndex].CountdownToStale # 0
                                THEN [WRTPtr[WatchIndex] EXCEPT
                                        !.CountdownToStale = @ - 1,
                                        !.WatchResult = IF WRTPtr[WatchIndex].CountdownToStale - 1 = 0
                                                        THEN LC_WATCH_STALE ELSE @]
                                ELSE WRTPtr[WatchIndex]]
                        ELSE WRTPtr
         ELSE /\ Events' = <<>>
              /\ UNCHANGED <<LC_AppData, ARTPtr, WRTPtr>>
    ELSE LengthError

(* mutant: only the watchpoints that the actionpoint equations refer to    *)
(* are aged                                                                *)
LC_SampleAPReq_AgesSampledOnly(BufPtr) ==
    IF LC_VerifyMsgLength(BufPtr)
    THEN IF LC_AppData.CurrentLCState # LC_STATE_DISABLED
         THEN LET StartIndex == BufPtr.StartIndex
                  EndIndex   == BufPtr.EndIndex
                  S0         == [ART |-> ARTPtr, AppData |-> LC_AppData, Events |-> <<>>]
                  All        == (StartIndex = LC_ALL_ACTIONPOINTS)
                                   /\ (EndIndex = LC_ALL_ACTIONPOINTS)
                  InRange    == (StartIndex <= EndIndex)
                                   /\ (EndIndex < LC_MAX_ACTIONPOINTS)
                  ValidSampleCmd == All \/ InRange
                  S1 == IF All
                        THEN LC_SampleAPs(S0, WRTPtr, 0, LC_MAX_ACTIONPOINTS - 1)
                        ELSE IF InRange
                        THEN LC_SampleAPs(S0, WRTPtr, StartIndex, EndIndex)
                        ELSE S0
              IN  /\ ARTPtr' = S1.ART
                  /\ LC_AppData' = S1.AppData
                  /\ Events' = IF ValidSampleCmd THEN S1.Events
                               ELSE <<Event("LC_APSAMPLE_APNUM_ERR_EID",
                                            <<StartIndex, EndIndex>>)>>
                  /\ WRTPtr' =
                        IF (BufPtr.UpdateAge # 0) /\ ValidSampleCmd
                        THEN [WatchIndex \in WPIndices |->
                                IF WRTPtr[WatchIndex].CountdownToStale # 0 /\ WatchIndex <= 1
                                THEN [WRTPtr[WatchIndex] EXCEPT
                                        !.CountdownToStale = @ - 1,
                                        !.WatchResult = IF WRTPtr[WatchIndex].CountdownToStale - 1 = 0
                                                        THEN LC_WATCH_STALE ELSE @]
                                ELSE WRTPtr[WatchIndex]]
                        ELSE WRTPtr
         ELSE /\ Events' = <<>>
              /\ UNCHANGED <<LC_AppData, ARTPtr, WRTPtr>>
    ELSE LengthError

(* mutant: a countdown that reaches 0 leaves the watch result as it is      *)
LC_SampleAPReq_NeverStale(BufPtr) ==
    IF LC_VerifyMsgLength(BufPtr)
    THEN IF LC_AppData.CurrentLCState # LC_STATE_DISABLED
         THEN LET StartIndex == BufPtr.StartIndex
                  EndIndex   == BufPtr.EndIndex
                  S0         == [ART |-> ARTPtr, AppData |-> LC_AppData, Events |-> <<>>]
                  All        == (StartIndex = LC_ALL_ACTIONPOINTS)
                                   /\ (EndIndex = LC_ALL_ACTIONPOINTS)
                  InRange    == (StartIndex <= EndIndex)
                                   /\ (EndIndex < LC_MAX_ACTIONPOINTS)
                  ValidSampleCmd == All \/ InRange
                  S1 == IF All
                        THEN LC_SampleAPs(S0, WRTPtr, 0, LC_MAX_ACTIONPOINTS - 1)
                        ELSE IF InRange
                        THEN LC_SampleAPs(S0, WRTPtr, StartIndex, EndIndex)
                        ELSE S0
              IN  /\ ARTPtr' = S1.ART
                  /\ LC_AppData' = S1.AppData
                  /\ Events' = IF ValidSampleCmd THEN S1.Events
                               ELSE <<Event("LC_APSAMPLE_APNUM_ERR_EID",
                                            <<StartIndex, EndIndex>>)>>
                  /\ WRTPtr' =
                        IF (BufPtr.UpdateAge # 0) /\ ValidSampleCmd
                        THEN [WatchIndex \in WPIndices |->
                                IF WRTPtr[WatchIndex].CountdownToStale # 0
                                THEN [WRTPtr[WatchIndex] EXCEPT
                                        !.CountdownToStale = @ - 1,
                                        !.WatchResult = IF WRTPtr[WatchIndex].CountdownToStale - 1 = 0
                                                        THEN @ ELSE @]
                                ELSE WRTPtr[WatchIndex]]
                        ELSE WRTPtr
         ELSE /\ Events' = <<>>
              /\ UNCHANGED <<LC_AppData, ARTPtr, WRTPtr>>
    ELSE LengthError

(* mutant: the watch results are aged before the actionpoints are sampled  *)
LC_SampleAPReq_AgesFirst(BufPtr) ==
    IF LC_VerifyMsgLength(BufPtr)
    THEN IF LC_AppData.CurrentLCState # LC_STATE_DISABLED
         THEN LET StartIndex == BufPtr.StartIndex
                  EndIndex   == BufPtr.EndIndex
                  S0         == [ART |-> ARTPtr, AppData |-> LC_AppData, Events |-> <<>>]
                  All        == (StartIndex = LC_ALL_ACTIONPOINTS)
                                   /\ (EndIndex = LC_ALL_ACTIONPOINTS)
                  InRange    == (StartIndex <= EndIndex)
                                   /\ (EndIndex < LC_MAX_ACTIONPOINTS)
                  ValidSampleCmd == All \/ InRange
                  Aged ==
                        IF (BufPtr.UpdateAge # 0) /\ ValidSampleCmd
                        THEN [WatchIndex \in WPIndices |->
                                IF WRTPtr[WatchIndex].CountdownToStale # 0
                                THEN [WRTPtr[WatchIndex] EXCEPT
                                        !.CountdownToStale = @ - 1,
                                        !.WatchResult = IF WRTPtr[WatchIndex].CountdownToStale - 1 = 0
                                                        THEN LC_WATCH_STALE ELSE @]
                                ELSE WRTPtr[WatchIndex]]
                        ELSE WRTPtr
                  S1 == IF All
                        THEN LC_SampleAPs(S0, Aged, 0, LC_MAX_ACTIONPOINTS - 1)
                        ELSE IF InRange
                        THEN LC_SampleAPs(S0, Aged, StartIndex, EndIndex)
                        ELSE S0
              IN  /\ ARTPtr' = S1.ART
                  /\ LC_AppData' = S1.AppData
                  /\ Events' = IF ValidSampleCmd THEN S1.Events
                               ELSE <<Event("LC_APSAMPLE_APNUM_ERR_EID",
                                            <<StartIndex, EndIndex>>)>>
                  /\ WRTPtr' = Aged
         ELSE /\ Events' = <<>>
              /\ UNCHANGED <<LC_AppData, ARTPtr, WRTPtr>>
    ELSE LengthError

(* mutant: the aging loop runs whatever the application state             *)
LC_SampleAPReq_AgesWhileDisabled(BufPtr) ==
    IF LC_VerifyMsgLength(BufPtr)
    THEN IF LC_AppData.CurrentLCState # LC_STATE_DISABLED
         THEN LET StartIndex == BufPtr.StartIndex
                  EndIndex   == BufPtr.EndIndex
                  S0         == [ART |-> ARTPtr, AppData |-> LC_AppData, Events |-> <<>>]
                  All        == (StartIndex = LC_ALL_ACTIONPOINTS)
                                   /\ (EndIndex = LC_ALL_ACTIONPOINTS)
                  InRange    == (StartIndex <= EndIndex)
                                   /\ (EndIndex < LC_MAX_ACTIONPOINTS)
                  ValidSampleCmd == All \/ InRange
                  S1 == IF All
                        THEN LC_SampleAPs(S0, WRTPtr, 0, LC_MAX_ACTIONPOINTS - 1)
                        ELSE IF InRange
                        THEN LC_SampleAPs(S0, WRTPtr, StartIndex, EndIndex)
                        ELSE S0
              IN  /\ ARTPtr' = S1.ART
                  /\ LC_AppData' = S1.AppData
                  /\ Events' = IF ValidSampleCmd THEN S1.Events
                               ELSE <<Event("LC_APSAMPLE_APNUM_ERR_EID",
                                            <<StartIndex, EndIndex>>)>>
                  /\ WRTPtr' =
                        IF (BufPtr.UpdateAge # 0) /\ ValidSampleCmd
                        THEN [WatchIndex \in WPIndices |->
                                IF WRTPtr[WatchIndex].CountdownToStale # 0
                                THEN [WRTPtr[WatchIndex] EXCEPT
                                        !.CountdownToStale = @ - 1,
                                        !.WatchResult = IF WRTPtr[WatchIndex].CountdownToStale - 1 = 0
                                                        THEN LC_WATCH_STALE ELSE @]
                                ELSE WRTPtr[WatchIndex]]
                        ELSE WRTPtr
         ELSE /\ Events' = <<>>
              /\ UNCHANGED <<LC_AppData, ARTPtr>>
              /\ WRTPtr' =
                    IF BufPtr.UpdateAge # 0
                    THEN [WatchIndex \in WPIndices |->
                            IF WRTPtr[WatchIndex].CountdownToStale # 0
                            THEN [WRTPtr[WatchIndex] EXCEPT
                                    !.CountdownToStale = @ - 1,
                                    !.WatchResult = IF WRTPtr[WatchIndex].CountdownToStale - 1 = 0
                                                    THEN LC_WATCH_STALE ELSE @]
                            ELSE WRTPtr[WatchIndex]]
                    ELSE WRTPtr
    ELSE LengthError

LC_SampleAPReq(BufPtr) ==
    IF LC_VerifyMsgLength(BufPtr)
    THEN IF LC_AppData.CurrentLCState # LC_STATE_DISABLED
         THEN LET StartIndex == BufPtr.StartIndex
                  EndIndex   == BufPtr.EndIndex
                  S0         == [ART |-> ARTPtr, AppData |-> LC_AppData, Events |-> <<>>]
                  All        == (StartIndex = LC_ALL_ACTIONPOINTS)
                                   /\ (EndIndex = LC_ALL_ACTIONPOINTS)
                  InRange    == (StartIndex <= EndIndex)
                                   /\ (EndIndex < LC_MAX_ACTIONPOINTS)
                  ValidSampleCmd == All \/ InRange
                  S1 == IF All
                        THEN LC_SampleAPs(S0, WRTPtr, 0, LC_MAX_ACTIONPOINTS - 1)
                        ELSE IF InRange
                        THEN LC_SampleAPs(S0, WRTPtr, StartIndex, EndIndex)
                        ELSE S0
              IN  /\ ARTPtr' = S1.ART
                  /\ LC_AppData' = S1.AppData
                  /\ Events' = IF ValidSampleCmd THEN S1.Events
                               ELSE <<Event("LC_APSAMPLE_APNUM_ERR_EID",
                                            <<StartIndex, EndIndex>>)>>
                  /\ WRTPtr' =
                        IF (BufPtr.UpdateAge # 0) /\ ValidSampleCmd
                        THEN [WatchIndex \in WPIndices |->
                                IF WRTPtr[WatchIndex].CountdownToStale # 0
                                THEN [WRTPtr[WatchIndex] EXCEPT
                                        !.CountdownToStale = @ - 1,
                                        !.WatchResult = IF WRTPtr[WatchIndex].CountdownToStale - 1 = 0
                                                        THEN LC_WATCH_STALE ELSE @]
                                ELSE WRTPtr[WatchIndex]]
                        ELSE WRTPtr
         ELSE /\ Events' = <<>>
              /\ UNCHANGED <<LC_AppData, ARTPtr, WRTPtr>>
    ELSE LengthError

(***************************************************************************)
(* Watchpoint evaluator: evaluate one watchpoint against a monitored       *)
(* message.  The message carries one field per watchpoint offset; a field  *)
(* at or beyond PayloadLength cannot be read.                              *)
(***************************************************************************)
LC_ProcessWP(WRT, WatchIndex, BufPtr) ==
    LET Entry    == WRT[WatchIndex]
        Def      == WDTPtr(WatchIndex)
        ReadOK   == WatchIndex < BufPtr.PayloadLength
        Value    == BufPtr.Payload[WatchIndex]
        Previous == Entry.WatchResult
        Result   == IF ~ReadOK THEN LC_WATCH_ERROR
                    ELSE IF Value > Def.ComparisonValue THEN LC_WATCH_TRUE
                    ELSE LC_WATCH_FALSE
        Rising   == Result = LC_WATCH_TRUE
                       /\ Previous \in {LC_WATCH_FALSE, LC_WATCH_STALE}
        Falling  == Result = LC_WATCH_FALSE /\ Previous = LC_WATCH_TRUE
        Stamp    == LC_WRTTransition_t(Value, "LC_DATA_UWORD_BE",
                                       BufPtr.Seconds, BufPtr.Subseconds)
    IN  [WRT EXCEPT ![WatchIndex] =
            [Entry EXCEPT
                !.WatchResult = Result,
                !.CountdownToStale = IF Result = LC_WATCH_ERROR THEN 0
                                     ELSE Def.ResultAgeWhenStale,
                !.EvaluationCount = Sat32(@),
                !.CumulativeTrueCount = IF Result = LC_WATCH_TRUE THEN Sat32(@) ELSE @,
                !.FalseToTrueCount = IF Rising THEN Sat32(@) ELSE @,
                !.ConsecutiveTrueCount =
                    IF Rising THEN 1
                    ELSE IF Result = LC_WATCH_TRUE THEN Sat32(@)
                    ELSE IF Falling THEN 0 ELSE @,
                !.LastFalseToTrue = IF Rising THEN Stamp ELSE @,
                !.LastTrueToFalse = IF Falling THEN Stamp ELSE @]]

RECURSIVE LC_EvaluateWPs(_, _, _, _)
LC_EvaluateWPs(WRT, WatchIndex, MessageID, BufPtr) ==
    IF WatchIndex >= LC_MAX_WATCHPOINTS
    THEN WRT
    ELSE LC_EvaluateWPs(IF WDTPtr(WatchIndex).MessageID = MessageID
                        THEN LC_ProcessWP(WRT, WatchIndex, BufPtr)
                        ELSE WRT,
                        WatchIndex + 1, MessageID, BufPtr)

(***************************************************************************)
(* Watchpoint dispatch: evaluate, in ascending order, every watchpoint     *)
(* whose definition names MessageID; count the message once if any does.   *)
(***************************************************************************)
LC_CheckMsgForWPs(MessageID, BufPtr) ==
    LET Matched == \E WatchIndex \in WPIndices : WDTPtr(WatchIndex).MessageID = MessageID
    IN  /\ WRTPtr' = LC_EvaluateWPs(WRTPtr, 0, MessageID, BufPtr)
        /\ LC_AppData' = [LC_AppData EXCEPT
                             !.MonitoredMsgCount = IF Matched THEN Sat32(@) ELSE @]
        /\ Events' = <<>>
        /\ UNCHANGED ARTPtr

(***************************************************************************)
(* Housekeeping result codes and the byte arithmetic of the packer.        *)
(***************************************************************************)
LC_HKWR_STALE == 0

LC_HKWR_FALSE == 1

LC_HKWR_TRUE == 2

LC_HKWR_ERROR == 3

LC_HKAR_STATE_NOT_USED == 0

LC_HKAR_STATE_ACTIVE == 1

LC_HKAR_STATE_PASSIVE == 2

LC_HKAR_STATE_DISABLED == 3

LC_HKAR_STALE == 0

LC_HKAR_PASS == 1

LC_HKAR_FAIL == 2

LC_HKAR_ERROR == 3

(* x << n, stored in a uint8                                               *)
Shl8(x, n) == (x * (2 ^ n)) % (2 ^ 8)

(* a | b on bytes                                                          *)
RECURSIVE BitOr(_, _)
BitOr(a, b) ==
    IF a = 0 THEN b
    ELSE IF b = 0 THEN a
    ELSE (IF (a % 2 = 1) \/ (b % 2 = 1) THEN 1 ELSE 0) + 2 * BitOr(a \div 2, b \div 2)

WatchResultCode(WatchResult) ==
    CASE WatchResult = LC_WATCH_STALE -> LC_HKWR_STALE
      [] WatchResult = LC_WATCH_FALSE -> LC_HKWR_FALSE
      [] WatchResult = LC_WATCH_TRUE -> LC_HKWR_TRUE
      [] OTHER -> LC_HKWR_ERROR

APStateCode(CurrentState) ==
    CASE CurrentState = LC_APSTATE_ACTION_NOT_USED -> LC_HKAR_STATE_NOT_USED
      [] CurrentState = LC_APSTATE_ACTIVE -> LC_HKAR_STATE_ACTIVE
      [] CurrentState = LC_APSTATE_PASSIVE -> LC_HKAR_STATE_PASSIVE
      [] CurrentState = LC_APSTATE_DISABLED -> LC_HKAR_STATE_DISABLED
      [] OTHER -> LC_HKAR_STATE_NOT_USED

ActionResultCode(ActionResult) ==
    CASE ActionResult = LC_ACTION_STALE -> LC_HKAR_STALE
      [] ActionResult = LC_ACTION_PASS -> LC_HKAR_PASS
      [] ActionResult = LC_ACTION_FAIL -> LC_HKAR_FAIL
      [] OTHER -> LC_HKAR_ERROR

(* Sizes of the packed arrays of the housekeeping packet.                  *)
LC_HKWR_NUM_BYTES == (LC_MAX_WATCHPOINTS + 3) \div 4

LC_HKAR_NUM_BYTES == (LC_MAX_ACTIONPOINTS + 1) \div 2

(***************************************************************************)
(* Table reads of the packer.  Its loops step by 4 (by 2) and read entries *)
(* TableIndex + 3 .. TableIndex (TableIndex + 1, TableIndex): when the     *)
(* table size is no multiple of the step, the reads of the last group run  *)
(* past the end of the table and yield whatever Beyond holds there.        *)
(***************************************************************************)
WRTBeyondIndices == LC_MAX_WATCHPOINTS .. (4 * LC_HKWR_NUM_BYTES - 1)

ARTBeyondIndices == LC_MAX_ACTIONPOINTS .. (2 * LC_HKAR_NUM_BYTES - 1)

ReadWatchResult(Beyond, TableIndex) ==
    IF TableIndex \in WPIndices
    THEN WRTPtr[TableIndex].WatchResult
    ELSE Beyond.WRT[TableIndex]

ReadCurrentState(Beyond, TableIndex) ==
    IF TableIndex \in APIndices
    THEN ARTPtr[TableIndex].CurrentState
    ELSE Beyond.ART[TableIndex].CurrentState

ReadActionResult(Beyond, TableIndex) ==
    IF TableIndex \in APIndices
    THEN ARTPtr[TableIndex].ActionResult
    ELSE Beyond.ART[TableIndex].ActionResult

(* mutant: the first watchpoint of a group is packed into the high bits    *)
PackWPResults_LowIndexHigh(Beyond) ==
    [HKIndex \in 0 .. (LC_HKWR_NUM_BYTES - 1) |->
        LET TableIndex == 4 * HKIndex
            B1 == Shl8(WatchResultCode(ReadWatchResult(Beyond, TableIndex)), 6)
            B2 == BitOr(B1, Shl8(WatchResultCode(ReadWatchResult(Beyond, TableIndex + 1)), 4))
            B3 == BitOr(B2, Shl8(WatchResultCode(ReadWatchResult(Beyond, TableIndex + 2)), 2))
        IN  BitOr(B3, WatchResultCode(ReadWatchResult(Beyond, TableIndex + 3)))]

(* mutant: the second watchpoint of a group is shifted by 1, into the bits *)
(* of the first                                                            *)
PackWPResults_Overlap(Beyond) ==
    [HKIndex \in 0 .. (LC_HKWR_NUM_BYTES - 1) |->
        LET TableIndex == 4 * HKIndex
            B1 == Shl8(WatchResultCode(ReadWatchResult(Beyond, TableIndex + 3)), 6)
            B2 == BitOr(B1, Shl8(WatchResultCode(ReadWatchResult(Beyond, TableIndex + 2)), 4))
            B3 == BitOr(B2, Shl8(WatchResultCode(ReadWatchResult(Beyond, TableIndex + 1)), 1))
        IN  BitOr(B3, WatchResultCode(ReadWatchResult(Beyond, TableIndex)))]

PackWPResults(Beyond) ==
    [HKIndex \in 0 .. (LC_HKWR_NUM_BYTES - 1) |->
        LET TableIndex == 4 * HKIndex
            B1 == Shl8(WatchResultCode(ReadWatchResult(Beyond, TableIndex + 3)), 6)
            B2 == BitOr(B1, Shl8(WatchResultCode(ReadWatchResult(Beyond, TableIndex + 2)), 4))
            B3 == BitOr(B2, Shl8(WatchResultCode(ReadWatchResult(Beyond, TableIndex + 1)), 2))
        IN  BitOr(B3, WatchResultCode(ReadWatchResult(Beyond, TableIndex)))]

(* mutant: the result code is packed above the state code                  *)
PackAPResults_ResultAboveState(Beyond) ==
    [HKIndex \in 0 .. (LC_HKAR_NUM_BYTES - 1) |->
        LET TableIndex == 2 * HKIndex
            B1 == Shl8(ActionResultCode(ReadActionResult(Beyond, TableIndex + 1)), 6)
            B2 == BitOr(B1, Shl8(APStateCode(ReadCurrentState(Beyond, TableIndex + 1)), 4))
            B3 == BitOr(B2, Shl8(ActionResultCode(ReadActionResult(Beyond, TableIndex)), 2))
        IN  BitOr(B3, APStateCode(ReadCurrentState(Beyond, TableIndex)))]

PackAPResults(Beyond) ==
    [HKIndex \in 0 .. (LC_HKAR_NUM_BYTES - 1) |->
        LET TableIndex == 2 * HKIndex
            B1 == Shl8(APStateCode(ReadCurrentState(Beyond, TableIndex + 1)), 6)
            B2 == BitOr(B1, Shl8(ActionResultCode(ReadActionResult(Beyond, TableIndex + 1)), 4))
            B3 == BitOr(B2, Shl8(APStateCode(ReadCurrentState(Beyond, TableIndex)), 2))
        IN  BitOr(B3, ActionResultCode(ReadActionResult(Beyond, TableIndex)))]

(* mutant: ActiveAPs is not cleared before the loop                        *)
CountActiveAPs_Accumulates(Beyond) ==
    ((IF Transmitted = <<>> THEN 0 ELSE Transmitted[1].ActiveAPs)
       + Cardinality({TableIndex \in 0 .. (2 * LC_HKAR_NUM_BYTES - 1) :
                         ReadCurrentState(Beyond, TableIndex) = LC_APSTATE_ACTIVE})) % (2 ^ 8)

(* ActiveAPs: incremented once for each entry read with state ACTIVE.      *)
CountActiveAPs(Beyond) ==
    Cardinality({TableIndex \in 0 .. (2 * LC_HKAR_NUM_BYTES - 1) :
                    ReadCurrentState(Beyond, TableIndex) = LC_APSTATE_ACTIVE}) % (2 ^ 8)

LC_WatchpointCount == LC_MAX_WATCHPOINTS

(***************************************************************************)
(* Periodic maintenance (table management hook): no table is reloaded in   *)
(* this model; its result is success or a critical error.                  *)
(***************************************************************************)
LC_PerformMaintenance == {CFE_SUCCESS, "CFE_TBL_ERROR"}

(***************************************************************************)
(* Housekeeping request.  Env: what lies beyond the tables (Beyond) and    *)
(* the result of maintenance (Result).                                     *)
(***************************************************************************)
(* mutant: the packet is sent whatever the length check said              *)
LC_HousekeepingReq_TransmitsAnyway(MsgPtr, Env) ==
    /\ IF LC_VerifyMsgLength(MsgPtr)
       THEN /\ Transmitted' =
                 <<[CmdCount |-> LC_AppData.CmdCount,
                    CmdErrCount |-> LC_AppData.CmdErrCount,
                    APSampleCount |-> LC_AppData.APSampleCount,
                    MonitoredMsgCount |-> LC_AppData.MonitoredMsgCount,
                    RTSExecCount |-> LC_AppData.RTSExecCount,
                    PassiveRTSExecCount |-> LC_AppData.PassiveRTSExecCount,
                    CurrentLCState |-> LC_AppData.CurrentLCState,
                    WPsInUse |-> LC_WatchpointCount,
                    ActiveAPs |-> CountActiveAPs(Env.Beyond),
                    WPResults |-> PackWPResults(Env.Beyond),
                    APResults |-> PackAPResults(Env.Beyond)]>>
            /\ Events' = <<>>
            /\ UNCHANGED <<LC_AppData, ARTPtr, WRTPtr>>
       ELSE /\ LengthError
            /\ Transmitted' = <<[CmdCount |-> LC_AppData.CmdCount]>>
    /\ Env.Result \in LC_PerformMaintenance
    /\ Maintenance' = <<[PacketsSent |-> Len(Transmitted'), Result |-> Env.Result]>>
    /\ Status' = Env.Result

(* mutant: maintenance is performed only for a request of valid length    *)
LC_HousekeepingReq_MaintainsIfValid(MsgPtr, Env) ==
    /\ IF LC_VerifyMsgLength(MsgPtr)
       THEN /\ Transmitted' =
                 <<[CmdCount |-> LC_AppData.CmdCount,
                    CmdErrCount |-> LC_AppData.CmdErrCount,
                    APSampleCount |-> LC_AppData.APSampleCount,
                    MonitoredMsgCount |-> LC_AppData.MonitoredMsgCount,
                    RTSExecCount |-> LC_AppData.RTSExecCount,
                    PassiveRTSExecCount |-> LC_AppData.PassiveRTSExecCount,
                    CurrentLCState |-> LC_AppData.CurrentLCState,
                    WPsInUse |-> LC_WatchpointCount,
                    ActiveAPs |-> CountActiveAPs(Env.Beyond),
                    WPResults |-> PackWPResults(Env.Beyond),
                    APResults |-> PackAPResults(Env.Beyond)]>>
            /\ Events' = <<>>
            /\ UNCHANGED <<LC_AppData, ARTPtr, WRTPtr>>
            /\ Maintenance' = <<[PacketsSent |-> Len(Transmitted'), Result |-> Env.Result]>>
            /\ Status' = Env.Result
       ELSE /\ LengthError
            /\ Transmitted' = <<>>
            /\ Maintenance' = <<>>
            /\ Status' = CFE_SUCCESS
    /\ Env.Result \in LC_PerformMaintenance

LC_HousekeepingReq(MsgPtr, Env) ==
    /\ IF LC_VerifyMsgLength(MsgPtr)
       THEN /\ Transmitted' =
                 <<[CmdCount |-> LC_AppData.CmdCount,
                    CmdErrCount |-> LC_AppData.CmdErrCount,
                    APSampleCount |-> LC_AppData.APSampleCount,
                    MonitoredMsgCount |-> LC_AppData.MonitoredMsgCount,
                    RTSExecCount |-> LC_AppData.RTSExecCount,
                    PassiveRTSExecCount |-> LC_AppData.PassiveRTSExecCount,
                    CurrentLCState |-> LC_AppData.CurrentLCState,
                    WPsInUse |-> LC_WatchpointCount,
                    ActiveAPs |-> CountActiveAPs(Env.Beyond),
                    WPResults |-> PackWPResults(Env.Beyond),
                    APResults |-> PackAPResults(Env.Beyond)]>>
            /\ Events' = <<>>
            /\ UNCHANGED <<LC_AppData, ARTPtr, WRTPtr>>
       ELSE /\ LengthError
            /\ Transmitted' = <<>>
    /\ Env.Result \in LC_PerformMaintenance
    /\ Maintenance' = <<[PacketsSent |-> Len(Transmitted'), Result |-> Env.Result]>>
    /\ Status' = Env.Result

(***************************************************************************)
(* Process a command pipe message.  Env is the environment of the          *)
(* housekeeping request (unused by the other messages).                    *)
(***************************************************************************)
LC_AppPipe(BufPtr, Env) ==
    LET MessageID == BufPtr.MsgId
    IN  CASE MessageID = LC_SAMPLE_AP_MID ->
                /\ LC_SampleAPReq(BufPtr)
                /\ Transmitted' = <<>>
                /\ Status' = CFE_SUCCESS
                /\ Maintenance' = <<>>
          [] MessageID = LC_SEND_HK_MID ->
                LC_HousekeepingReq(BufPtr, Env)
          [] MessageID = LC_CMD_MID ->
                LET CommandCode == BufPtr.FcnCode
                IN  /\ CASE CommandCode = LC_NOOP_CC -> LC_NoopCmd(BufPtr)
                          [] CommandCode = LC_RESET_CC -> LC_ResetCmd(BufPtr)
                          [] CommandCode = LC_SET_LC_STATE_CC -> LC_SetLCStateCmd(BufPtr)
                          [] CommandCode = LC_SET_AP_STATE_CC -> LC_SetAPStateCmd(BufPtr)
                          [] CommandCode = LC_SET_AP_PERMOFF_CC -> LC_SetAPPermOffCmd(BufPtr)
                          [] CommandCode = LC_RESET_AP_STATS_CC -> LC_ResetAPStatsCmd(BufPtr)
                          [] CommandCode = LC_RESET_WP_STATS_CC -> LC_ResetWPStatsCmd(BufPtr)
                          [] OTHER ->
                                /\ LC_AppData' = [LC_AppData EXCEPT !.CmdErrCount = Inc8(@)]
                                /\ Events' = <<Event("LC_CC_ERR_EID",
                                                     <<MessageID, CommandCode>>)>>
                                /\ UNCHANGED <<ARTPtr, WRTPtr>>
                    /\ Transmitted' = <<>>
                    /\ Status' = CFE_SUCCESS
                    /\ Maintenance' = <<>>
          [] OTHER ->
                /\ LC_CheckMsgForWPs(MessageID, BufPtr)
                /\ Transmitted' = <<>>
                /\ Status' = CFE_SUCCESS
                /\ Maintenance' = <<>>

(***************************************************************************)
(* The messages offered to the pipe: every argument ranges over its valid  *)
(* values and over invalid ones (an index just past the table, the "all"   *)
(* value, a state byte that is no enumerator, a wrong length).             *)
(***************************************************************************)
APNumberArgs == APIndices \cup {LC_MAX_ACTIONPOINTS, LC_ALL_ACTIONPOINTS}

WPNumberArgs == WPIndices \cup {LC_MAX_WATCHPOINTS, LC_ALL_WATCHPOINTS}

APStateArgs == APStates \cup {UndefinedByte}

LCStateArgs == LCStates \cup {UndefinedByte}

Command(FcnCode, LengthOK) ==
    [MsgId |-> LC_CMD_MID, FcnCode |-> FcnCode, LengthOK |-> LengthOK]

NoopMsg(LengthOK) == Command(LC_NOOP_CC, LengthOK)

ResetMsg(LengthOK) == Command(LC_RESET_CC, LengthOK)

SetLCStateMsg(LengthOK, NewLCState) ==
    [MsgId |-> LC_CMD_MID, FcnCode |-> LC_SET_LC_STATE_CC, LengthOK |-> LengthOK,
     NewLCState |-> NewLCState]

SetAPStateMsg(LengthOK, APNumber, NewAPState) ==
    [MsgId |-> LC_CMD_MID, FcnCode |-> LC_SET_AP_STATE_CC, LengthOK |-> LengthOK,
     APNumber |-> APNumber, NewAPState |-> NewAPState]

SetAPPermOffMsg(LengthOK, APNumber) ==
    [MsgId |-> LC_CMD_MID, FcnCode |-> LC_SET_AP_PERMOFF_CC, LengthOK |-> LengthOK,
     APNumber |-> APNumber]

ResetAPStatsMsg(LengthOK, APNumber) ==
    [MsgId |-> LC_CMD_MID, FcnCode |-> LC_RESET_AP_STATS_CC, LengthOK |-> LengthOK,
     APNumber |-> APNumber]

ResetWPStatsMsg(LengthOK, WPNumber) ==
    [MsgId |-> LC_CMD_MID, FcnCode |-> LC_RESET_WP_STATS_CC, LengthOK |-> LengthOK,
     WPNumber |-> WPNumber]

UnknownCCMsg == Command(LC_RESET_WP_STATS_CC + 1, TRUE)

SampleAPMsg(LengthOK, StartIndex, EndIndex, UpdateAge) ==
    [MsgId |-> LC_SAMPLE_AP_MID, LengthOK |-> LengthOK,
     StartIndex |-> StartIndex, EndIndex |-> EndIndex, UpdateAge |-> UpdateAge]

SendHKMsg(LengthOK) == [MsgId |-> LC_SEND_HK_MID, LengthOK |-> LengthOK]

NoEnv == [Beyond |-> [WRT |-> <<>>, ART |-> <<>>], Result |-> CFE_SUCCESS]

HKEnvs ==
    [Beyond : [WRT : [WRTBeyondIndices -> WatchResults \cup {UndefinedByte}],
               ART : [ARTBeyondIndices ->
                         [CurrentState : APStates \cup {UndefinedByte},
                          ActionResult : ActionResults \cup {UndefinedByte}]]],
     Result : LC_PerformMaintenance]

(***************************************************************************)
(* Exploration stops where the commands counted since the last reset would *)
(* pass MaxCommands, or the samples counted one sample of every            *)
(* actionpoint.                                                            *)
(***************************************************************************)
Bounded ==
    /\ LC_AppData.CmdCount + LC_AppData.CmdErrCount <= MaxCommands
    /\ LC_AppData.APSampleCount <= LC_MAX_ACTIONPOINTS

(* A handler verifies the length before it reads any argument: of the     *)
(* messages of a wrong length one argument value stands for all.           *)
ArgsOf(LengthOK, Args) == IF LengthOK THEN Args ELSE {CHOOSE a \in Args : TRUE}

Noop ==
    \E len \in BOOLEAN :
        LC_AppPipe(NoopMsg(len), NoEnv) /\ Bounded'

Reset ==
    \E len \in BOOLEAN :
        LC_AppPipe(ResetMsg(len), NoEnv) /\ Bounded'

SetLCState ==
    \E len \in BOOLEAN : \E new \in ArgsOf(len, LCStateArgs) :
        LC_AppPipe(SetLCStateMsg(len, new), NoEnv) /\ Bounded'

SetAPState ==
    \E len \in BOOLEAN :
      \E ap \in ArgsOf(len, APNumberArgs), new \in ArgsOf(len, APStateArgs) :
        LC_AppPipe(SetAPStateMsg(len, ap, new), NoEnv) /\ Bounded'

SetAPPermOff ==
    \E len \in BOOLEAN : \E ap \in ArgsOf(len, APNumberArgs) :
        LC_AppPipe(SetAPPermOffMsg(len, ap), NoEnv) /\ Bounded'

ResetAPStats ==
    \E len \in BOOLEAN : \E ap \in ArgsOf(len, APNumberArgs) :
        LC_AppPipe(ResetAPStatsMsg(len, ap), NoEnv) /\ Bounded'

ResetWPStats ==
    \E len \in BOOLEAN : \E wp \in ArgsOf(len, WPNumberArgs) :
        LC_AppPipe(ResetWPStatsMsg(len, wp), NoEnv) /\ Bounded'

UnknownCC == LC_AppPipe(UnknownCCMsg, NoEnv) /\ Bounded'

(* The index pairs of the sample requests: every valid range, and of the   *)
(* rejected pairs, which all leave the same state behind, one of each      *)
(* kind (one index "all", reversed, end past the table).                   *)
SampleRanges ==
    {range \in APNumberArgs \X APNumberArgs :
        \/ range[1] = LC_ALL_ACTIONPOINTS /\ range[2] = LC_ALL_ACTIONPOINTS
        \/ range[1] <= range[2] /\ range[2] < LC_MAX_ACTIONPOINTS}
    \cup {<<LC_ALL_ACTIONPOINTS, 0>>, <<0, LC_ALL_ACTIONPOINTS>>,
          <<1, 0>>, <<0, LC_MAX_ACTIONPOINTS>>}

SampleAP ==
    \E len \in BOOLEAN :
      \E range \in ArgsOf(len, SampleRanges), age \in ArgsOf(len, 0 .. 1) :
        LC_AppPipe(SampleAPMsg(len, range[1], range[2], age), NoEnv) /\ Bounded'

SendHK ==
    \E len \in BOOLEAN, env \in HKEnvs :
        LC_AppPipe(SendHKMsg(len), env) /\ Bounded'

Next ==
    \/ Noop
    \/ Reset
    \/ SetLCState
    \/ SetAPState
    \/ SetAPPermOff
    \/ ResetAPStats
    \/ ResetWPStats
    \/ UnknownCC
    \/ SampleAP
    \/ SendHK

Spec == Init /\ [][Next]_vars

(***************************************************************************)
(* The monitoring path: monitored telemetry, sample requests and the       *)
(* reset commands.  Actionpoint states and the application state are       *)
(* those of bring-up, which no message of this path changes.               *)
(*                                                                         *)
(* A monitored message carries the same value in every watched field;      *)
(* with PayloadLength below LC_MAX_WATCHPOINTS the fields of the           *)
(* watchpoints at and above PayloadLength lie past its end.                *)
(***************************************************************************)
MaxActivity == 3

TelemetryValues == {0, 1}

TelemetryLengths == {1, LC_MAX_WATCHPOINTS}

TelemetryMsg(Value, PayloadLength) ==
    [MsgId |-> MonitoredMID,
     Payload |-> [WatchIndex \in WPIndices |-> Value],
     PayloadLength |-> PayloadLength,
     Seconds |-> 1,
     Subseconds |-> 1]

(* Exploration stops where the messages counted since the last reset, or  *)
(* the evaluations or failures counted in one table entry, would pass      *)
(* MaxActivity.                                                            *)
BoundedMon ==
    /\ LC_AppData.CmdCount + LC_AppData.CmdErrCount
          + LC_AppData.MonitoredMsgCount + LC_AppData.APSampleCount <= MaxActivity
    /\ \A WatchIndex \in WPIndices : WRTPtr[WatchIndex].EvaluationCount <= MaxActivity
    /\ \A APNumber \in APIndices : ARTPtr[APNumber].CumulativeFailCount <= MaxActivity

(* The reset command zeroes the counters that bound the exploration: it   *)
(* is explored as a last message (no message follows it).                  *)
ResetDone == Events = <<Event("LC_RESET_DBG_EID", <<>>)>>

(* A housekeeping request changes nothing that a later message reads: it   *)
(* too is explored as a last message.                                      *)
RunOver == ResetDone \/ Transmitted # <<>>

MonTelemetry ==
    /\ ~RunOver
    /\ \E value \in TelemetryValues, len \in TelemetryLengths :
          LC_AppPipe(TelemetryMsg(value, len), NoEnv) /\ BoundedMon'

MonSampleAP ==
    /\ ~RunOver
    /\ \E range \in SampleRanges, age \in 0 .. 1 :
          LC_AppPipe(SampleAPMsg(TRUE, range[1], range[2], age), NoEnv) /\ BoundedMon'

MonReset ==
    /\ ~RunOver
    /\ LC_AppPipe(ResetMsg(TRUE), NoEnv) /\ BoundedMon'

MonResetAPStats ==
    /\ ~RunOver
    /\ \E ap \in APIndices \cup {LC_ALL_ACTIONPOINTS} :
          LC_AppPipe(ResetAPStatsMsg(TRUE, ap), NoEnv) /\ BoundedMon'

MonResetWPStats ==
    /\ ~RunOver
    /\ \E wp \in {0, LC_ALL_WATCHPOINTS} :
          LC_AppPipe(ResetWPStatsMsg(TRUE, wp), NoEnv) /\ BoundedMon'

MonSetLCState ==
    /\ ~RunOver
    /\ \E new \in LCStates :
          LC_AppPipe(SetLCStateMsg(TRUE, new), NoEnv) /\ BoundedMon'

MonSendHK ==
    /\ ~RunOver
    /\ \E env \in HKEnvs : LC_AppPipe(SendHKMsg(TRUE), env)

NextMon ==
    \/ MonSetLCState
    \/ MonSendHK
    \/ MonTelemetry
    \/ MonSampleAP
    \/ MonReset
    \/ MonResetAPStats
    \/ MonResetWPStats

(* Bring-up with the first actionpoint ACTIVE and the others PASSIVE.      *)
InitMon ==
    /\ Init
    /\ \A i \in APIndices :
          ARTPtr[i].CurrentState = IF i = 0 THEN LC_APSTATE_ACTIVE ELSE LC_APSTATE_PASSIVE

SpecMon == InitMon /\ [][NextMon]_vars

(***************************************************************************)
(* The command counters at the end of their width: the application has     *)
(* handled enough commands for CmdCount and CmdErrCount to be one or two   *)
(* short of 2^8; the commands go on until a counter has left the window    *)
(* of the last two values and 0.                                           *)
(***************************************************************************)
InitOverflow ==
    /\ \E lcs \in LCStates, accepted, rejected \in {2 ^ 8 - 2, 2 ^ 8 - 1} :
          LC_AppData = [CurrentLCState |-> lcs,
                        CmdCount |-> accepted,
                        CmdErrCount |-> rejected,
                        APSampleCount |-> 0,
                        MonitoredMsgCount |-> 0,
                        RTSExecCount |-> 0,
                        PassiveRTSExecCount |-> 0]
    /\ \E DefaultState \in [APIndices -> APStates] :
          ARTPtr = [i \in APIndices |-> LC_ARTEntry_t(LC_ACTION_STALE, DefaultState[i])]
    /\ WRTPtr = [i \in WPIndices |-> LC_WRTEntry_t(LC_WATCH_STALE, 0)]
    /\ Events = <<>>
    /\ Transmitted = <<>>
    /\ Status = CFE_SUCCESS
    /\ Maintenance = <<>>

InWindow ==
    /\ LC_AppData.CmdCount \in {2 ^ 8 - 2, 2 ^ 8 - 1, 0}
    /\ LC_AppData.CmdErrCount \in {2 ^ 8 - 2, 2 ^ 8 - 1, 0}

OverflowNoop ==
    \E len \in BOOLEAN :
        LC_AppPipe(NoopMsg(len), NoEnv) /\ InWindow'

OverflowUnknownCC == LC_AppPipe(UnknownCCMsg, NoEnv) /\ InWindow'

OverflowSetAPState ==
    \E len \in BOOLEAN :
      \E ap \in ArgsOf(len, APNumberArgs), new \in ArgsOf(len, APStateArgs) :
        LC_AppPipe(SetAPStateMsg(len, ap, new), NoEnv) /\ InWindow'

OverflowReset ==
    \E len \in BOOLEAN :
        LC_AppPipe(ResetMsg(len), NoEnv) /\ InWindow'

NextOverflow == OverflowNoop \/ OverflowUnknownCC \/ OverflowSetAPState \/ OverflowReset

SpecOverflow == InitOverflow /\ [][NextOverflow]_vars

(***************************************************************************)
(*                        The housekeeping packer                          *)
(*                                                                         *)
(* The packer is a function of the results tables.  What the tables hold   *)
(* depends on the definition tables and on the messages seen so far: here  *)
(* the watch results range over every assignment of the four enumerators   *)
(* to the watchpoints, and the actionpoint states and results over every   *)
(* assignment of the five states and four results to the actionpoints,    *)
(* and a housekeeping request of valid length is handled in each.          *)
(***************************************************************************)
InitHK ==
    /\ LC_AppData = [CurrentLCState |-> LC_STATE_ACTIVE,
                     CmdCount |-> 0,
                     CmdErrCount |-> 0,
                     APSampleCount |-> 0,
                     MonitoredMsgCount |-> 0,
                     RTSExecCount |-> 0,
                     PassiveRTSExecCount |-> 0]
    /\ \/ /\ \E Result \in [WPIndices -> WatchResults] :
                WRTPtr = [i \in WPIndices |-> LC_WRTEntry_t(Result[i], 0)]
          /\ ARTPtr = [i \in APIndices |->
                          LC_ARTEntry_t(LC_ACTION_STALE, LC_APSTATE_ACTIVE)]
       \/ /\ WRTPtr = [i \in WPIndices |-> LC_WRTEntry_t(LC_WATCH_STALE, 0)]
          /\ \E Result \in [APIndices -> ActionResults],
                State \in [APIndices -> APStates] :
                ARTPtr = [i \in APIndices |-> LC_ARTEntry_t(Result[i], State[i])]
    /\ Events = <<>>
    /\ Transmitted = <<>>
    /\ Status = CFE_SUCCESS
    /\ Maintenance = <<>>

NextHK == MonSendHK

SpecHK == InitHK /\ [][NextHK]_vars

(***************************************************************************)
(*              The housekeeping packer over other table sizes             *)
(*                                                                         *)
(* LC_MAX_WATCHPOINTS and LC_MAX_ACTIONPOINTS are configuration values.    *)
(* Here the results tables have MaxWatchpoints and MaxActionpoints entries *)
(* (1 .. MaxTableSize each) and the request runs the same two loops with   *)
(* these sizes as their limits.                                            *)
(***************************************************************************)
MaxTableSize == 6

(* for (TableIndex = 0; TableIndex < MaxEntries; TableIndex += Step)       *)
GroupStarts(MaxEntries, Step) ==
    {TableIndex \in 0 .. (MaxEntries - 1) : TableIndex % Step = 0}

(* WRTPtr[TableIndex + 3], [TableIndex + 2], [TableIndex + 1], [TableIndex] *)
WRTIndicesRead(MaxWatchpoints) ==
    {TableIndex + Offset : TableIndex \in GroupStarts(MaxWatchpoints, 4), Offset \in 0 .. 3}

(* ARTPtr[TableIndex + 1], ARTPtr[TableIndex]                              *)
ARTIndicesRead(MaxActionpoints) ==
    {TableIndex + Offset : TableIndex \in GroupStarts(MaxActionpoints, 2), Offset \in 0 .. 1}

(* WPResults[HKIndex], HKIndex = TableIndex / 4                            *)
WPResultsIndicesWritten(MaxWatchpoints) ==
    {TableIndex \div 4 : TableIndex \in GroupStarts(MaxWatchpoints, 4)}

(* APResults[HKIndex], HKIndex = TableIndex / 2                            *)
APResultsIndicesWritten(MaxActionpoints) ==
    {TableIndex \div 2 : TableIndex \in GroupStarts(MaxActionpoints, 2)}

InitSizes ==
    /\ LC_AppData = [CurrentLCState |-> LC_STATE_ACTIVE, CmdCount |-> 0, CmdErrCount |-> 0,
                     APSampleCount |-> 0, MonitoredMsgCount |-> 0, RTSExecCount |-> 0,
                     PassiveRTSExecCount |-> 0]
    /\ \E MaxWatchpoints \in 1 .. MaxTableSize, WatchResult \in WatchResults :
          WRTPtr = [i \in 0 .. (MaxWatchpoints - 1) |-> LC_WRTEntry_t(WatchResult, 0)]
    /\ \E MaxActionpoints \in 1 .. MaxTableSize :
          ARTPtr = [i \in 0 .. (MaxActionpoints - 1) |->
                       LC_ARTEntry_t(LC_ACTION_STALE, LC_APSTATE_ACTIVE)]
    /\ Events = <<>>
    /\ Transmitted = <<>>
    /\ Status = CFE_SUCCESS
    /\ Maintenance = <<>>

(* The request on tables of MaxWatchpoints and MaxActionpoints entries.    *)
(* WRTRead and ARTRead are what the loops' reads return: the table entry   *)
(* where the index is in the table, anything where it is not.              *)
SizedHousekeepingReq ==
    LET MaxWatchpoints == Cardinality(DOMAIN WRTPtr)
        MaxActionpoints == Cardinality(DOMAIN ARTPtr)
    IN  \E WRTBeyond \in [WRTIndicesRead(MaxWatchpoints) \ DOMAIN WRTPtr ->
                             WatchResults \cup {UndefinedByte}],
           ARTBeyond \in [ARTIndicesRead(MaxActionpoints) \ DOMAIN ARTPtr ->
                             [CurrentState : APStates \cup {UndefinedByte},
                              ActionResult : ActionResults \cup {UndefinedByte}]] :
          LET WRTRead == [i \in WRTIndicesRead(MaxWatchpoints) |->
                             IF i \in DOMAIN WRTPtr THEN WRTPtr[i].WatchResult
                             ELSE WRTBeyond[i]]
              ARTRead == [i \in ARTIndicesRead(MaxActionpoints) |->
                             IF i \in DOMAIN ARTPtr
                             THEN [CurrentState |-> ARTPtr[i].CurrentState,
                                   ActionResult |-> ARTPtr[i].ActionResult]
                             ELSE ARTBeyond[i]]
          IN
          /\ Transmitted' =
               <<[CmdCount |-> LC_AppData.CmdCount,
                  CmdErrCount |-> LC_AppData.CmdErrCount,
                  APSampleCount |-> LC_AppData.APSampleCount,
                  MonitoredMsgCount |-> LC_AppData.MonitoredMsgCount,
                  RTSExecCount |-> LC_AppData.RTSExecCount,
                  PassiveRTSExecCount |-> LC_AppData.PassiveRTSExecCount,
                  CurrentLCState |-> LC_AppData.CurrentLCState,
                  WPsInUse |-> MaxWatchpoints,
                  ActiveAPs |->
                     Cardinality({i \in DOMAIN ARTRead :
                                     ARTRead[i].CurrentState = LC_APSTATE_ACTIVE}) % (2 ^ 8),
                  WPResults |->
                     [HKIndex \in WPResultsIndicesWritten(MaxWatchpoints) |->
                         LET TableIndex == 4 * HKIndex
                             B1 == Shl8(WatchResultCode(WRTRead[TableIndex + 3]), 6)
                             B2 == BitOr(B1, Shl8(WatchResultCode(WRTRead[TableIndex + 2]), 4))
                             B3 == BitOr(B2, Shl8(WatchResultCode(WRTRead[TableIndex + 1]), 2))
                         IN  BitOr(B3, WatchResultCode(WRTRead[TableIndex]))],
                  APResults |->
                     [HKIndex \in APResultsIndicesWritten(MaxActionpoints) |->
                         LET TableIndex == 2 * HKIndex
                             B1 == Shl8(APStateCode(ARTRead[TableIndex + 1].CurrentState), 6)
                             B2 == BitOr(B1, Shl8(ActionResultCode(
                                                     ARTRead[TableIndex + 1].ActionResult), 4))
                             B3 == BitOr(B2, Shl8(APStateCode(ARTRead[TableIndex].CurrentState), 2))
                         IN  BitOr(B3, ActionResultCode(ARTRead[TableIndex].ActionResult))]]>>
          /\ Events' = <<>>
          /\ Status' \in LC_PerformMaintenance
          /\ Maintenance' = <<[PacketsSent |-> Len(Transmitted'), Result |-> Status']>>
          /\ UNCHANGED <<LC_AppData, ARTPtr, WRTPtr>>

(* One request is handled on each table.                                   *)
NextSizes == Transmitted = <<>> /\ SizedHousekeepingReq

SpecSizes == InitSizes /\ [][NextSizes]_vars

(***************************************************************************)
(*               The state commands on tables with a history               *)
(*                                                                         *)
(* The tables as monitoring leaves them: every watchpoint has been         *)
(* evaluated TRUE once and its countdown runs; every actionpoint in use    *)
(* has failed twice in a row and requested its RTS once, and has since     *)
(* been put in any state; an actionpoint not in use has never been         *)
(* sampled.  The application counters are non-zero.  The state commands    *)
(* arrive in any order.                                                    *)
(***************************************************************************)
InitStates ==
    /\ \E lcs \in LCStates :
          LC_AppData = [CurrentLCState |-> lcs,
                        CmdCount |-> 0,
                        CmdErrCount |-> 0,
                        APSampleCount |-> LC_MAX_ACTIONPOINTS,
                        MonitoredMsgCount |-> 1,
                        RTSExecCount |-> 1,
                        PassiveRTSExecCount |-> 1]
    /\ \E State \in [APIndices -> APStates] :
          ARTPtr = [i \in APIndices |->
                      IF State[i] = LC_APSTATE_ACTION_NOT_USED
                      THEN LC_ARTEntry_t(LC_ACTION_STALE, State[i])
                      ELSE [LC_ARTEntry_t(LC_ACTION_FAIL, State[i]) EXCEPT
                              !.PassToFailCount = 1,
                              !.ConsecutiveFailCount = 2,
                              !.CumulativeFailCount = 2,
                              !.CumulativeRTSExecCount = 1,
                              !.CumulativeEventMsgsSent = 1]]
    /\ WRTPtr = [i \in WPIndices |->
                  [LC_WRTEntry_t(LC_WATCH_TRUE, 1) EXCEPT
                     !.EvaluationCount = 1,
                     !.FalseToTrueCount = 1,
                     !.ConsecutiveTrueCount = 1,
                     !.CumulativeTrueCount = 1]]
    /\ Events = <<>>
    /\ Transmitted = <<>>
    /\ Status = CFE_SUCCESS
    /\ Maintenance = <<>>

NextStates == SetLCState \/ SetAPState \/ SetAPPermOff

SpecStates == InitStates /\ [][NextStates]_vars

(***************************************************************************)
(*                        Properties of the command path                   *)
(***************************************************************************)

(* Shorthands of the properties.  Handles(BufPtr): the step is the         *)
(* processing of message BufPtr.                                           *)
Handles(BufPtr) == LC_AppPipe(BufPtr, NoEnv)

CurrentState(ap) == ARTPtr[ap].CurrentState

OperationalStates == {LC_APSTATE_ACTIVE, LC_APSTATE_PASSIVE, LC_APSTATE_DISABLED}

StickyStates == {LC_APSTATE_ACTION_NOT_USED, LC_APSTATE_PERMOFF}

NoAPStateChanged == \A ap \in APIndices : ARTPtr'[ap].CurrentState = ARTPtr[ap].CurrentState

Accepted ==
    /\ LC_AppData'.CmdCount = LC_AppData.CmdCount + 1
    /\ LC_AppData'.CmdErrCount = LC_AppData.CmdErrCount

Rejected ==
    /\ LC_AppData'.CmdErrCount = LC_AppData.CmdErrCount + 1
    /\ LC_AppData'.CmdCount = LC_AppData.CmdCount

SetAPStateMsgs ==
    {SetAPStateMsg(len, ap, new) : len \in BOOLEAN, ap \in APNumberArgs, new \in APStateArgs}

(* C1: with no table load, an actionpoint that is NOT_USED or PERMOFF      *)
(* keeps that state over every message: a step never changes the           *)
(* CurrentState of an actionpoint that is in one of the two states.        *)
C1_StickyStates ==
    [][\A ap \in APIndices :
          CurrentState(ap) \in StickyStates
             => ARTPtr'[ap].CurrentState = ARTPtr[ap].CurrentState]_vars

(* C1 witness: a "set all actionpoints" command has just been accepted     *)
(* while one actionpoint is PERMOFF and another NOT_USED.                  *)
C1_Witness ==
    /\ Events = <<"LC_APSTATE_INF_EID">>
    /\ \E ap \in APIndices : CurrentState(ap) = LC_APSTATE_PERMOFF
    /\ \E ap \in APIndices : CurrentState(ap) = LC_APSTATE_ACTION_NOT_USED

(* C2: a step that brings an actionpoint into PERMOFF is a valid           *)
(* SetAPPermOff command naming that actionpoint, which was DISABLED        *)
(* before the step; and no SetAPState command brings an actionpoint into   *)
(* PERMOFF or NOT_USED.                                                    *)
C2_PermOffOnlyFromDisabled ==
    [][/\ \A ap \in APIndices :
             (CurrentState(ap) # LC_APSTATE_PERMOFF
                 /\ ARTPtr'[ap].CurrentState = LC_APSTATE_PERMOFF)
                => /\ CurrentState(ap) = LC_APSTATE_DISABLED
                   /\ Handles(SetAPPermOffMsg(TRUE, ap))
       /\ \/ \A ap \in APIndices :
                ARTPtr'[ap].CurrentState \in StickyStates
                   => ARTPtr'[ap].CurrentState = ARTPtr[ap].CurrentState
          \/ ~(\E m \in SetAPStateMsgs : Handles(m))]_vars

(* C2 witness: the permanent-off command has just been accepted and        *)
(* exactly one actionpoint is PERMOFF.                                     *)
C2_Witness ==
    /\ Events = <<"LC_APOFF_INF_EID">>
    /\ Cardinality({ap \in APIndices : CurrentState(ap) = LC_APSTATE_PERMOFF}) = 1

(* C3: SetAPPermOff(ap), valid length, ap a table index: a DISABLED        *)
(* actionpoint becomes PERMOFF with CmdCount + 1 and CmdErrCount unchanged;*)
(* in any other state the command is rejected, no CurrentState changes,    *)
(* CmdErrCount + 1 and CmdCount unchanged.  Every other actionpoint is     *)
(* unchanged in both cases.                                                *)
C3_SetAPPermOff ==
    [][\A ap \in APIndices :
          Handles(SetAPPermOffMsg(TRUE, ap)) =>
             /\ IF CurrentState(ap) = LC_APSTATE_DISABLED
                THEN /\ ARTPtr'[ap].CurrentState = LC_APSTATE_PERMOFF
                     /\ Accepted
                ELSE /\ NoAPStateChanged
                     /\ Rejected
             /\ \A other \in APIndices \ {ap} : ARTPtr'[other] = ARTPtr[other]]_vars

(* C3 witness: the first command counted is an accepted permanent-off.     *)
C3_Witness ==
    /\ Events = <<"LC_APOFF_INF_EID">>
    /\ LC_AppData.CmdCount = 1
    /\ LC_AppData.CmdErrCount = 0
    /\ \E ap \in APIndices : CurrentState(ap) = LC_APSTATE_PERMOFF

(* C4: SetAPPermOff with the "all actionpoints" value, or with any number  *)
(* past the table, is rejected whatever the states of the actionpoints: no *)
(* CurrentState changes, CmdErrCount + 1, CmdCount unchanged.              *)
C4_PermOffAllRejected ==
    [][\A ap \in {LC_ALL_ACTIONPOINTS, LC_MAX_ACTIONPOINTS} :
          Handles(SetAPPermOffMsg(TRUE, ap)) => (NoAPStateChanged /\ Rejected)]_vars

(* C4 witness: the command has just been rejected for its actionpoint      *)
(* number while every actionpoint is DISABLED.                             *)
C4_Witness ==
    /\ Events = <<"LC_APOFF_APNUM_ERR_EID">>
    /\ \A ap \in APIndices : CurrentState(ap) = LC_APSTATE_DISABLED

(* C5: SetAPState(ap, new), valid length, valid new state, ap a table      *)
(* index whose actionpoint is PERMOFF or NOT_USED, is rejected:            *)
(* CmdErrCount + 1, CmdCount unchanged, the actionpoint still in its state.*)
C5_PermOffProtection ==
    [][\A ap \in APIndices, new \in OperationalStates :
          (CurrentState(ap) \in StickyStates /\ Handles(SetAPStateMsg(TRUE, ap, new)))
             => (Rejected /\ ARTPtr'[ap].CurrentState = ARTPtr[ap].CurrentState)]_vars

(* C5 witness: one command was accepted, then a set-state command was      *)
(* rejected for the current state of its actionpoint, and an actionpoint   *)
(* is PERMOFF (DISABLED -> SetAPPermOff -> SetAPState).                    *)
C5_Witness ==
    /\ Events = <<"LC_APSTATE_CURR_ERR_EID">>
    /\ LC_AppData.CmdCount = 1
    /\ LC_AppData.CmdErrCount = 1
    /\ \E ap \in APIndices : CurrentState(ap) = LC_APSTATE_PERMOFF

(* C6 as stated: a SetAPState command on one index whose actionpoint is    *)
(* NOT_USED or PERMOFF leaves the state and leaves CmdErrCount unchanged.  *)
C6_ErrCountUnchanged ==
    [][\A m \in SetAPStateMsgs :
          (m.APNumber \in APIndices
              /\ ARTPtr[m.APNumber].CurrentState \in StickyStates
              /\ Handles(m))
             => /\ ARTPtr'[m.APNumber].CurrentState = ARTPtr[m.APNumber].CurrentState
                /\ LC_AppData'.CmdErrCount = LC_AppData.CmdErrCount]_vars

(* C6 amended: a SetAPState command on one index whose actionpoint is      *)
(* NOT_USED or PERMOFF leaves the state unchanged and increases            *)
(* CmdErrCount by exactly 1.                                               *)
C6_ErrCountIncremented ==
    [][\A m \in SetAPStateMsgs :
          (m.APNumber \in APIndices
              /\ ARTPtr[m.APNumber].CurrentState \in StickyStates
              /\ Handles(m))
             => /\ ARTPtr'[m.APNumber].CurrentState = ARTPtr[m.APNumber].CurrentState
                /\ LC_AppData'.CmdErrCount = LC_AppData.CmdErrCount + 1]_vars

(* C6 witness: a set-state command has just been rejected for the current  *)
(* state of its actionpoint, which is NOT_USED, as the first error counted.*)
C6_Witness ==
    /\ Events = <<"LC_APSTATE_CURR_ERR_EID">>
    /\ LC_AppData.CmdErrCount = 1
    /\ \E ap \in APIndices : CurrentState(ap) = LC_APSTATE_ACTION_NOT_USED
    /\ \A ap \in APIndices : CurrentState(ap) # LC_APSTATE_PERMOFF

(* C7: SetAPState(ALL_ACTIONPOINTS, new), new operational: every           *)
(* actionpoint that was ACTIVE, PASSIVE or DISABLED is in state new, every *)
(* NOT_USED or PERMOFF one is unchanged, CmdErrCount is unchanged and      *)
(* CmdCount + 1, however many actionpoints changed.                        *)
C7_SetAllAPStates ==
    [][\A new \in OperationalStates :
          Handles(SetAPStateMsg(TRUE, LC_ALL_ACTIONPOINTS, new)) =>
             /\ \A ap \in APIndices :
                   IF CurrentState(ap) \in OperationalStates
                   THEN ARTPtr'[ap].CurrentState = new
                   ELSE ARTPtr'[ap] = ARTPtr[ap]
             /\ Accepted]_vars

(* C7 witness: a set-state command has just been accepted although every   *)
(* actionpoint is NOT_USED or PERMOFF (zero actionpoints changed).         *)
C7_Witness ==
    /\ Events = <<"LC_APSTATE_INF_EID">>
    /\ LC_AppData.CmdCount >= 1
    /\ \A ap \in APIndices : CurrentState(ap) \in StickyStates

(* C8: SetAPState(ap, new) on a table index whose actionpoint is ACTIVE,   *)
(* PASSIVE or DISABLED, new operational (new = current included),          *)
(* succeeds: that actionpoint is in state new, the others are unchanged,   *)
(* CmdCount + 1, CmdErrCount unchanged.  A number past the table that is   *)
(* not the "all" value is rejected: CmdErrCount + 1, no actionpoint        *)
(* changed.                                                                *)
C8_SetOneAPState ==
    [][\A new \in OperationalStates :
          /\ \A ap \in APIndices :
                (CurrentState(ap) \in OperationalStates
                    /\ Handles(SetAPStateMsg(TRUE, ap, new)))
                   => /\ ARTPtr'[ap].CurrentState = new
                      /\ \A other \in APIndices \ {ap} : ARTPtr'[other] = ARTPtr[other]
                      /\ Accepted
          /\ Handles(SetAPStateMsg(TRUE, LC_MAX_ACTIONPOINTS, new))
                => (ARTPtr' = ARTPtr /\ Rejected)]_vars

(* C8 witness: a set-state command has just been accepted and one          *)
(* actionpoint is DISABLED beside one that is ACTIVE (one index was set).  *)
C8_Witness ==
    /\ Events = <<"LC_APSTATE_INF_EID">>
    /\ \E ap \in APIndices : CurrentState(ap) = LC_APSTATE_DISABLED
    /\ \E ap \in APIndices : CurrentState(ap) = LC_APSTATE_ACTIVE

(* C9: SetAPState with a new state that is not ACTIVE, PASSIVE or DISABLED *)
(* is rejected for every actionpoint number (index, "all", past the        *)
(* table): no CurrentState changes, CmdCount unchanged, CmdErrCount + 1    *)
(* (not + 2).                                                              *)
C9_InvalidNewAPState ==
    [][\A ap \in APNumberArgs, new \in APStateArgs \ OperationalStates :
          Handles(SetAPStateMsg(TRUE, ap, new)) => (NoAPStateChanged /\ Rejected)]_vars

(* C9 witness: a set-state command has just been rejected for its new      *)
(* state, as the only command counted.                                     *)
C9_Witness ==
    /\ Events = <<"LC_APSTATE_NEW_ERR_EID">>
    /\ LC_AppData.CmdErrCount = 1
    /\ LC_AppData.CmdCount = 0

(* C10: SetLCState(new): for new ACTIVE, PASSIVE or DISABLED,              *)
(* CurrentLCState becomes new and CmdCount + 1; for any other value        *)
(* CurrentLCState is unchanged, CmdErrCount + 1 and CmdCount unchanged.    *)
(* No actionpoint's CurrentState changes in either case.                   *)
C10_SetLCState ==
    [][\A new \in LCStateArgs :
          Handles(SetLCStateMsg(TRUE, new)) =>
             /\ IF new \in LCStates
                THEN /\ LC_AppData'.CurrentLCState = new
                     /\ LC_AppData'.CmdCount = LC_AppData.CmdCount + 1
                ELSE /\ LC_AppData'.CurrentLCState = LC_AppData.CurrentLCState
                     /\ Rejected
             /\ NoAPStateChanged]_vars

(* C10 witness: the application has just been set to DISABLED by the       *)
(* first command counted.                                                  *)
C10_Witness ==
    /\ Events = <<"LC_LCSTATE_INF_EID">>
    /\ LC_AppData.CurrentLCState = LC_STATE_DISABLED
    /\ LC_AppData.CmdCount = 1
    /\ LC_AppData.CmdErrCount = 0

(* C11: a RESET command of valid length leaves the six application         *)
(* counters at 0 (CmdCount is 0, the command does not count itself), and   *)
(* leaves CurrentLCState and every entry of the results tables as they     *)
(* were.                                                                   *)
C11_ResetCounters ==
    [][Handles(ResetMsg(TRUE)) =>
          /\ LC_AppData'.CmdCount = 0
          /\ LC_AppData'.CmdErrCount = 0
          /\ LC_AppData'.APSampleCount = 0
          /\ LC_AppData'.MonitoredMsgCount = 0
          /\ LC_AppData'.RTSExecCount = 0
          /\ LC_AppData'.PassiveRTSExecCount = 0
          /\ LC_AppData'.CurrentLCState = LC_AppData.CurrentLCState
          /\ ARTPtr' = ARTPtr
          /\ WRTPtr' = WRTPtr]_vars

(* C11 witness: the reset has just been done after a monitored message     *)
(* was evaluated and an actionpoint requested its RTS (the tables still    *)
(* hold those counts, the application counters are back to 0).             *)
C11_Witness ==
    /\ ResetDone
    /\ LC_AppData.MonitoredMsgCount = 0
    /\ LC_AppData.RTSExecCount = 0
    /\ \E wp \in WPIndices : WRTPtr[wp].EvaluationCount >= 1
    /\ \E ap \in APIndices : ARTPtr[ap].CumulativeRTSExecCount >= 1

(* The entries a stats-reset command with argument Number targets.         *)
Targeted(Number, Indices, All) == IF Number = All THEN Indices ELSE {Number}

APCountersZero(Entry) ==
    /\ Entry.PassiveAPCount = 0
    /\ Entry.FailToPassCount = 0
    /\ Entry.PassToFailCount = 0
    /\ Entry.ConsecutiveFailCount = 0
    /\ Entry.CumulativeFailCount = 0
    /\ Entry.CumulativeRTSExecCount = 0
    /\ Entry.CumulativeEventMsgsSent = 0

WPCountersZero(Entry) ==
    /\ Entry.EvaluationCount = 0
    /\ Entry.FalseToTrueCount = 0
    /\ Entry.ConsecutiveTrueCount = 0
    /\ Entry.CumulativeTrueCount = 0
    /\ Entry.LastFalseToTrue.Value = 0
    /\ Entry.LastFalseToTrue.Seconds = 0
    /\ Entry.LastFalseToTrue.Subseconds = 0
    /\ Entry.LastTrueToFalse.Value = 0
    /\ Entry.LastTrueToFalse.Seconds = 0
    /\ Entry.LastTrueToFalse.Subseconds = 0

(* C12: an accepted ResetAPStats (one index or all) sets the seven         *)
(* counters of each targeted ART entry to 0 and keeps its ActionResult and *)
(* CurrentState; an accepted ResetWPStats sets the counters and the        *)
(* last-transition values and timestamps of each targeted WRT entry to 0   *)
(* and keeps its WatchResult and CountdownToStale.  Entries that are not   *)
(* targeted are not modified.                                              *)
C12_ResetStatsOnlyCounters ==
    [][/\ \A ap \in APIndices \cup {LC_ALL_ACTIONPOINTS} :
             Handles(ResetAPStatsMsg(TRUE, ap)) =>
                \A i \in APIndices :
                   IF i \in Targeted(ap, APIndices, LC_ALL_ACTIONPOINTS)
                   THEN /\ APCountersZero(ARTPtr'[i])
                        /\ ARTPtr'[i].ActionResult = ARTPtr[i].ActionResult
                        /\ ARTPtr'[i].CurrentState = ARTPtr[i].CurrentState
                   ELSE ARTPtr'[i] = ARTPtr[i]
       /\ \A wp \in WPIndices \cup {LC_ALL_WATCHPOINTS} :
             Handles(ResetWPStatsMsg(TRUE, wp)) =>
                \A i \in WPIndices :
                   IF i \in Targeted(wp, WPIndices, LC_ALL_WATCHPOINTS)
                   THEN /\ WPCountersZero(WRTPtr'[i])
                        /\ WRTPtr'[i].WatchResult = WRTPtr[i].WatchResult
                        /\ WRTPtr'[i].CountdownToStale = WRTPtr[i].CountdownToStale
                   ELSE WRTPtr'[i] = WRTPtr[i]]_vars

(* C12 witness: actionpoint statistics have just been reset; an            *)
(* actionpoint whose last sample failed (so its counters had moved) has    *)
(* its counters at 0 and still shows FAIL.                                 *)
C12_Witness ==
    /\ Events = <<"LC_APSTATS_INF_EID">>
    /\ \E ap \in APIndices :
          /\ ARTPtr[ap].ActionResult = LC_ACTION_FAIL
          /\ APCountersZero(ARTPtr[ap])

(* C13: ResetAPStats (ResetWPStats) is accepted, CmdCount + 1 and          *)
(* CmdErrCount unchanged, exactly when its index is the "all" value or is  *)
(* below LC_MAX_ACTIONPOINTS (LC_MAX_WATCHPOINTS); for any other index it  *)
(* is rejected: CmdErrCount + 1, CmdCount unchanged, no entry of either    *)
(* results table modified.                                                 *)
C13_ResetStatsIndex ==
    [][/\ \A ap \in APNumberArgs :
             \/ IF ap = LC_ALL_ACTIONPOINTS \/ ap < LC_MAX_ACTIONPOINTS
                THEN Accepted
                ELSE Rejected /\ ARTPtr' = ARTPtr /\ WRTPtr' = WRTPtr
             \/ ~Handles(ResetAPStatsMsg(TRUE, ap))
       /\ \A wp \in {0, LC_MAX_WATCHPOINTS - 1, LC_MAX_WATCHPOINTS, LC_ALL_WATCHPOINTS} :
             \/ IF wp = LC_ALL_WATCHPOINTS \/ wp < LC_MAX_WATCHPOINTS
                THEN Accepted
                ELSE Rejected /\ ARTPtr' = ARTPtr /\ WRTPtr' = WRTPtr
             \/ ~Handles(ResetWPStatsMsg(TRUE, wp))]_vars

(* C13 witness: a ResetAPStats command has just been rejected for its      *)
(* actionpoint number, after one stats reset was accepted.                 *)
C13_Witness ==
    /\ Events = <<"LC_APSTATS_APNUM_ERR_EID">>
    /\ LC_AppData.CmdCount = 1
    /\ LC_AppData.CmdErrCount = 1

(* The error events with which the command handlers reject a command of    *)
(* valid length, and the one with which a sample request is rejected.      *)
CommandRejections ==
    {"LC_CC_ERR_EID", "LC_LCSTATE_ERR_EID", "LC_APSTATE_NEW_ERR_EID",
     "LC_APSTATE_CURR_ERR_EID", "LC_APSTATE_APNUM_ERR_EID",
     "LC_APOFF_APNUM_ERR_EID", "LC_APOFF_CURR_ERR_EID",
     "LC_APSTATS_APNUM_ERR_EID", "LC_WPSTATS_WPNUM_ERR_EID"}

SampleRejection == "LC_APSAMPLE_APNUM_ERR_EID"

RejectedWith(EventIDs) == Events' \in {<<e>> : e \in EventIDs}

TargetStateUnchanged ==
    /\ LC_AppData'.CurrentLCState = LC_AppData.CurrentLCState
    /\ ARTPtr' = ARTPtr
    /\ WRTPtr' = WRTPtr

(* C14 as stated: every rejected command, a sample request rejected for    *)
(* its range included, increments CmdErrCount and leaves CurrentLCState    *)
(* and the results tables unchanged.                                       *)
C14_ErrorPolicyWithSample ==
    [][RejectedWith(CommandRejections \cup {SampleRejection}) =>
          /\ LC_AppData'.CmdErrCount = LC_AppData.CmdErrCount + 1
          /\ TargetStateUnchanged]_vars

(* C14 amended: every rejected command of the command message ID (unknown  *)
(* function code, invalid enum value, invalid index, invalid state         *)
(* transition) increments CmdErrCount by 1 and leaves CurrentLCState and   *)
(* the results tables unchanged; a sample request rejected for its range   *)
(* leaves them unchanged too, but counts no error: no application counter  *)
(* changes.                                                                *)
C14_ErrorPolicy ==
    [][/\ RejectedWith(CommandRejections) =>
             /\ LC_AppData'.CmdErrCount = LC_AppData.CmdErrCount + 1
             /\ LC_AppData'.CmdCount = LC_AppData.CmdCount
             /\ TargetStateUnchanged
       /\ RejectedWith({SampleRejection}) =>
             /\ LC_AppData' = LC_AppData
             /\ TargetStateUnchanged]_vars

(* C14 witness: a sample request has just been rejected for its range      *)
(* after one command was rejected and one accepted.                        *)
C14_Witness ==
    /\ Events = <<SampleRejection>>
    /\ LC_AppData.CmdErrCount = 1
    /\ LC_AppData.CmdCount = 1

(* The messages of a wrong length: every kind, with valid and invalid      *)
(* values of every argument (an index in the table, just past it, the      *)
(* "all" value; a state that may be commanded, one that may not, a byte    *)
(* that is no enumerator; a sample range that is valid, reversed, half     *)
(* "all").                                                                 *)
WrongLengthMsgs ==
    {NoopMsg(FALSE), ResetMsg(FALSE), SendHKMsg(FALSE)}
    \cup {SetLCStateMsg(FALSE, new) : new \in LCStateArgs}
    \cup {SetAPStateMsg(FALSE, ap, new) :
             ap \in APNumberArgs,
             new \in {LC_APSTATE_ACTIVE, LC_APSTATE_PERMOFF, UndefinedByte}}
    \cup {SetAPPermOffMsg(FALSE, ap) : ap \in APNumberArgs}
    \cup {ResetAPStatsMsg(FALSE, ap) : ap \in APNumberArgs}
    \cup {ResetWPStatsMsg(FALSE, wp) : wp \in WPNumberArgs}
    \cup {SampleAPMsg(FALSE, start, end, 1) :
             start \in {0, 1, LC_ALL_ACTIONPOINTS},
             end \in {0, LC_MAX_ACTIONPOINTS, LC_ALL_ACTIONPOINTS}}
    \cup {SampleAPMsg(FALSE, 0, 0, 0)}

C16_SampleRange ==
    [][\A start \in APNumberArgs, end \in APNumberArgs, age \in 0 .. 1 :
          LET Both    == start = LC_ALL_ACTIONPOINTS /\ end = LC_ALL_ACTIONPOINTS
              Within  == start <= end /\ end < LC_MAX_ACTIONPOINTS
              Covered == IF Both THEN 0 .. LC_MAX_ACTIONPOINTS - 1
                         ELSE IF Within THEN start .. end ELSE {}
              Sampled == IF LC_AppData.CurrentLCState = LC_STATE_DISABLED THEN {}
                         ELSE {ap \in Covered :
                                 CurrentState(ap) \in {LC_APSTATE_ACTIVE,
                                                       LC_APSTATE_PASSIVE}}
          IN  \/ IF Both \/ Within
                 THEN /\ LC_AppData'.APSampleCount =
                            LC_AppData.APSampleCount + Cardinality(Sampled)
                      /\ \A ap \in APIndices \ Sampled : ARTPtr'[ap] = ARTPtr[ap]
                      /\ \A ap \in Sampled :
                            ARTPtr'[ap].ActionResult =
                               LC_EvaluateRPN(WRTPtr, ADTPtr(ap).RPNEquation, 1, <<>>)
                 ELSE /\ LC_AppData' = LC_AppData
                      /\ ARTPtr' = ARTPtr
                      /\ WRTPtr' = WRTPtr
              \/ ~Handles(SampleAPMsg(TRUE, start, end, age))]_vars

(* C16 witness: a request has just been rejected for its range while a     *)
(* watchpoint had a countdown running, after a request for the single      *)
(* actionpoint 1 was carried out: actionpoint 1 has a result, actionpoint   *)
(* 0 was not sampled.                                                      *)
C16_Witness ==
    /\ Events = <<SampleRejection>>
    /\ \E WatchIndex \in WPIndices : WRTPtr[WatchIndex].CountdownToStale > 0
    /\ LC_AppData.APSampleCount = 1
    /\ ARTPtr[1].ActionResult # LC_ACTION_STALE
    /\ ARTPtr[0].ActionResult = LC_ACTION_STALE

(* The sample requests of valid length with a valid range.                 *)
ValidRangeSamples(UpdateAges) ==
    {BufPtr \in {SampleAPMsg(TRUE, start, end, age) :
                    start \in APNumberArgs, end \in APNumberArgs, age \in UpdateAges} :
        \/ BufPtr.StartIndex = LC_ALL_ACTIONPOINTS /\ BufPtr.EndIndex = LC_ALL_ACTIONPOINTS
        \/ BufPtr.StartIndex <= BufPtr.EndIndex /\ BufPtr.EndIndex < LC_MAX_ACTIONPOINTS}

(* Every watchpoint with a running countdown is aged by one and becomes    *)
(* STALE exactly when its countdown reaches 0; the others keep both        *)
(* fields.                                                                 *)
AllWatchpointsAged ==
    \A WatchIndex \in WPIndices :
        LET Old == WRTPtr[WatchIndex]
            New == WRTPtr'[WatchIndex]
        IN  IF Old.CountdownToStale > 0
            THEN /\ New.CountdownToStale = Old.CountdownToStale - 1
                 /\ New.WatchResult = IF New.CountdownToStale = 0
                                      THEN LC_WATCH_STALE ELSE Old.WatchResult
            ELSE /\ New.CountdownToStale = 0
                 /\ New.WatchResult = Old.WatchResult

(* C17 as stated: every valid-range sample request with UpdateAge # 0 ages *)
(* every watchpoint, whatever the application state; with UpdateAge = 0 no *)
(* results entry changes.                                                  *)
C17_AgingInEveryLCState ==
    [][/\ \A BufPtr \in ValidRangeSamples({1}) : Handles(BufPtr) => AllWatchpointsAged
       /\ \A BufPtr \in ValidRangeSamples({0}) : Handles(BufPtr) => WRTPtr' = WRTPtr]_vars

(* C17 amended: every valid-range sample request with UpdateAge # 0 that   *)
(* is handled while CurrentLCState is not DISABLED decrements by exactly 1 *)
(* the CountdownToStale of every watchpoint (all LC_MAX_WATCHPOINTS) whose *)
(* countdown is > 0 and sets its WatchResult to STALE exactly when the     *)
(* countdown reaches 0; watchpoints whose countdown is 0 keep both fields. *)
(* With UpdateAge = 0, or while CurrentLCState is DISABLED, no watchpoint  *)
(* results entry changes.                                                  *)
C17_Aging ==
    [][/\ \A BufPtr \in ValidRangeSamples({1}) :
             Handles(BufPtr) =>
                IF LC_AppData.CurrentLCState # LC_STATE_DISABLED
                THEN AllWatchpointsAged
                ELSE WRTPtr' = WRTPtr
       /\ \A BufPtr \in ValidRangeSamples({0}) : Handles(BufPtr) => WRTPtr' = WRTPtr]_vars

(* C17 witness: watchpoint 0, evaluated once, has aged out to STALE after  *)
(* two sample requests; watchpoint 1, whose countdown was 0, kept its      *)
(* result.                                                                 *)
C17_Witness ==
    /\ WRTPtr[0].EvaluationCount = 1
    /\ WRTPtr[0].WatchResult = LC_WATCH_STALE
    /\ WRTPtr[0].CountdownToStale = 0
    /\ WRTPtr[1].WatchResult = LC_WATCH_TRUE
    /\ LC_AppData.APSampleCount > 0

(* The step is a sample request that has processed staleness: valid        *)
(* length, valid range, UpdateAge # 0, application not disabled.           *)
StalenessProcessed ==
    /\ LC_AppData.CurrentLCState # LC_STATE_DISABLED
    /\ \E BufPtr \in ValidRangeSamples({1}) : Handles(BufPtr)

(* C18 as stated: just after a sample request has processed staleness,     *)
(* every watchpoint has CountdownToStale = 0 if and only if its            *)
(* WatchResult is STALE or ERROR.                                          *)
C18_StaleIffCountdownZero ==
    [][StalenessProcessed =>
          \A WatchIndex \in WPIndices :
              WRTPtr'[WatchIndex].CountdownToStale = 0
                 <=> WRTPtr'[WatchIndex].WatchResult \in {LC_WATCH_STALE, LC_WATCH_ERROR}]_vars

(* C18 amended: just after a sample request has processed staleness, every *)
(* watchpoint whose WatchResult is STALE or ERROR has CountdownToStale = 0, *)
(* and every watchpoint whose definition has ResultAgeWhenStale > 0 and    *)
(* whose CountdownToStale is 0 has WatchResult STALE or ERROR.  A          *)
(* watchpoint with ResultAgeWhenStale = 0 keeps TRUE or FALSE with         *)
(* CountdownToStale = 0.                                                   *)
C18_StalenessInvariant ==
    [][StalenessProcessed =>
          \A WatchIndex \in WPIndices :
              LET Entry == WRTPtr'[WatchIndex]
                  Stale == Entry.WatchResult \in {LC_WATCH_STALE, LC_WATCH_ERROR}
              IN  /\ Stale => Entry.CountdownToStale = 0
                  /\ (WDTPtr(WatchIndex).ResultAgeWhenStale > 0
                        /\ Entry.CountdownToStale = 0) => Stale]_vars

(* C18 witness: after two aging sample requests watchpoint 0 (age 2) is    *)
(* STALE with countdown 0 while watchpoint 1 (age 0) is still FALSE with   *)
(* countdown 0.                                                            *)
C18_Witness ==
    /\ LC_AppData.APSampleCount > 0
    /\ WRTPtr[0].EvaluationCount = 1
    /\ WRTPtr[0].WatchResult = LC_WATCH_STALE
    /\ WRTPtr[1].WatchResult = LC_WATCH_FALSE
    /\ WRTPtr[1].CountdownToStale = 0
    /\ WDTPtr(1).ResultAgeWhenStale = 0

(* The staleness scenario: the application and actionpoint 0 (equation     *)
(* [WP0, END]) are ACTIVE, watchpoint 0 was evaluated TRUE with            *)
(* ResultAgeWhenStale = k > 0 and has since been aged by fewer than k      *)
(* sample requests with no monitored message in between (its countdown     *)
(* still runs), and the step is a sample request with UpdateAge = 1 that   *)
(* covers actionpoint 0.  It is the k-th one when the countdown is 1.      *)
StalenessScenario ==
    /\ LC_AppData.CurrentLCState = LC_STATE_ACTIVE
    /\ CurrentState(0) = LC_APSTATE_ACTIVE
    /\ ADTPtr(0).RPNEquation = <<RPN_WP(0), RPN_OP("EQUATION_END")>>
    /\ WRTPtr[0].WatchResult = LC_WATCH_TRUE
    /\ WRTPtr[0].CountdownToStale \in 1 .. WDTPtr(0).ResultAgeWhenStale
    /\ \E BufPtr \in ValidRangeSamples({1}) :
          /\ BufPtr.StartIndex \in {0, LC_ALL_ACTIONPOINTS}
          /\ Handles(BufPtr)

AP0CountersUnchanged ==
    /\ ARTPtr'[0].ConsecutiveFailCount = ARTPtr[0].ConsecutiveFailCount
    /\ ARTPtr'[0].CumulativeFailCount = ARTPtr[0].CumulativeFailCount
    /\ ARTPtr'[0].PassToFailCount = ARTPtr[0].PassToFailCount
    /\ ARTPtr'[0].FailToPassCount = ARTPtr[0].FailToPassCount

HKCodeOf(WatchResult) ==
    IF WatchResult = LC_WATCH_STALE THEN 0
    ELSE IF WatchResult = LC_WATCH_FALSE THEN 1
    ELSE IF WatchResult = LC_WATCH_TRUE THEN 2
    ELSE 3

(* C20: after a housekeeping request of valid length, for every byte index *)
(* k < LC_MAX_WATCHPOINTS / 4 the byte WPResults[k] of the transmitted     *)
(* packet holds the code of watchpoint 4k+3 in bits 7-6, of 4k+2 in bits   *)
(* 5-4, of 4k+1 in bits 3-2 and of 4k in bits 1-0 (and nothing above bit   *)
(* 7), the codes being STALE = 0, FALSE = 1, TRUE = 2, ERROR = 3; a        *)
(* WatchResult that is none of the four enumerators is given the ERROR     *)
(* code by the packer's conversion.                                        *)
C20_WatchResultPacking ==
    [][(\E Env \in HKEnvs : LC_AppPipe(SendHKMsg(TRUE), Env)) =>
          /\ Len(Transmitted') = 1
          /\ \A k \in 0 .. (LC_MAX_WATCHPOINTS \div 4 - 1) :
                LET Byte == Transmitted'[1].WPResults[k]
                IN  /\ Byte \in 0 .. 255
                    /\ \A j \in 0 .. 3 :
                          (Byte \div (2 ^ (2 * j))) % 4 =
                             HKCodeOf(WRTPtr[4 * k + j].WatchResult)
          /\ \A WatchResult \in WatchResults \cup {UndefinedByte} :
                WatchResultCode(WatchResult) = HKCodeOf(WatchResult)
          /\ WatchResultCode(UndefinedByte) = 3]_vars

(* C20 witness: a packet was transmitted whose two watch result bytes      *)
(* differ: watchpoint 0 TRUE and watchpoints 1 to 7 ERROR (0xFE, 0xFF).    *)
C20_Witness ==
    /\ Len(Transmitted) = 1
    /\ Transmitted[1].WPResults[0] = 254
    /\ Transmitted[1].WPResults[1] = 255
    /\ WRTPtr[0].WatchResult = LC_WATCH_TRUE
    /\ WRTPtr[5].WatchResult = LC_WATCH_ERROR

(***************************************************************************)
(*                   Properties of the housekeeping packet                 *)
(***************************************************************************)

(* The step is the handling of a housekeeping request of valid length.     *)
HKRequestHandled == \E Env \in HKEnvs : LC_AppPipe(SendHKMsg(TRUE), Env)

(* The watch results of the packing scenario, by index 0 .. 7.             *)
ScenarioWatchResults ==
    /\ LC_MAX_WATCHPOINTS = 8
    /\ \A i \in WPIndices :
          WRTPtr[i].WatchResult =
             <<LC_WATCH_TRUE, LC_WATCH_FALSE, LC_WATCH_STALE, LC_WATCH_ERROR,
               LC_WATCH_TRUE, LC_WATCH_TRUE, LC_WATCH_FALSE, LC_WATCH_STALE>>[i + 1]

(* C21 as stated: with the scenario's watch results a housekeeping request *)
(* of valid length transmits WPResults = [0xE4, 0x16].                     *)
C21_ScenarioE4_16 ==
    [][(ScenarioWatchResults /\ HKRequestHandled) =>
          /\ Transmitted'[1].WPResults[0] = 228
          /\ Transmitted'[1].WPResults[1] = 22]_vars

(* C21 amended: with the scenario's watch results a housekeeping request   *)
(* of valid length transmits one packet with WPResults = [0xC6, 0x1A]:     *)
(* byte 0 is ERROR, STALE, FALSE, TRUE (11 00 01 10) for watchpoints 3, 2, *)
(* 1, 0 and byte 1 is STALE, FALSE, TRUE, TRUE (00 01 10 10) for           *)
(* watchpoints 7, 6, 5, 4.                                                 *)
C21_ScenarioC6_1A ==
    [][(ScenarioWatchResults /\ HKRequestHandled) =>
          /\ Len(Transmitted') = 1
          /\ DOMAIN Transmitted'[1].WPResults = 0 .. 1
          /\ Transmitted'[1].WPResults[0] = 198
          /\ Transmitted'[1].WPResults[1] = 26]_vars

(* C21 witness: the packet of the scenario has been transmitted.           *)
C21_Witness ==
    /\ ScenarioWatchResults
    /\ Len(Transmitted) = 1
    /\ Transmitted[1].WPResults = (0 :> 198) @@ (1 :> 26)


(* C22: after a housekeeping request of valid length, for every byte index *)
(* k < LC_MAX_ACTIONPOINTS / 2 the byte APResults[k] holds actionpoint     *)
(* 2k+1 in bits 7-4 and actionpoint 2k in bits 3-0, in each group the      *)
(* state code in the upper two bits and the result code in the lower two;  *)
(* state codes NOT_USED = 0, ACTIVE = 1, PASSIVE = 2, DISABLED = 3, with   *)
(* PERMOFF and any undefined state reported as NOT_USED; result codes      *)
(* STALE = 0, PASS = 1, FAIL = 2, ERROR = 3, any undefined result          *)
(* reported as ERROR.                                                      *)
C22_ActionResultPacking ==
    [][LET HKStateCodeOf(State) ==
               IF State = LC_APSTATE_ACTIVE THEN 1
               ELSE IF State = LC_APSTATE_PASSIVE THEN 2
               ELSE IF State = LC_APSTATE_DISABLED THEN 3
               ELSE 0
           HKResultCodeOf(Result) ==
               IF Result = LC_ACTION_STALE THEN 0
               ELSE IF Result = LC_ACTION_PASS THEN 1
               ELSE IF Result = LC_ACTION_FAIL THEN 2
               ELSE 3
       IN  HKRequestHandled =>
             /\ Len(Transmitted') = 1
             /\ DOMAIN Transmitted'[1].APResults =
                   0 .. ((LC_MAX_ACTIONPOINTS + 1) \div 2 - 1)
             /\ \A k \in 0 .. (LC_MAX_ACTIONPOINTS \div 2 - 1) :
                   LET Byte == Transmitted'[1].APResults[k]
                   IN  /\ Byte \in 0 .. 255
                       /\ \A j \in 0 .. 1 :
                             LET Group == (Byte \div (16 ^ j)) % 16
                             IN  /\ Group \div 4 =
                                       HKStateCodeOf(ARTPtr[2 * k + j].CurrentState)
                                 /\ Group % 4 =
                                       HKResultCodeOf(ARTPtr[2 * k + j].ActionResult)
             /\ APStateCode(LC_APSTATE_PERMOFF) = 0
             /\ APStateCode(UndefinedByte) = 0
             /\ ActionResultCode(UndefinedByte) = 3]_vars

(* C22 witness: a packet was transmitted for actionpoint 1 DISABLED with   *)
(* result FAIL and actionpoint 0 permanently off with result PASS: the     *)
(* byte is 11 10 00 01 (0xE1).                                             *)
C22_Witness ==
    /\ Len(Transmitted) = 1
    /\ ARTPtr[1].CurrentState = LC_APSTATE_DISABLED
    /\ ARTPtr[1].ActionResult = LC_ACTION_FAIL
    /\ ARTPtr[0].CurrentState = LC_APSTATE_PERMOFF
    /\ ARTPtr[0].ActionResult = LC_ACTION_PASS
    /\ Transmitted[1].APResults[0] = 225


(* C23: the packing is lossless.  Unpacking the WPResults and APResults of *)
(* a transmitted packet, by reading each two-bit field back through the    *)
(* inverse code table, recovers the WatchResult of every watchpoint and    *)
(* the ActionResult and CurrentState of every actionpoint, except that     *)
(* PERMOFF comes back as NOT_USED; the unpacked vector is a function of    *)
(* the bytes alone, so two different watch result vectors never give the   *)
(* same bytes; and no field overlaps another: every byte is the sum of its *)
(* fields' codes, each at its own power of 4.                              *)
C23_PackingRoundTrip ==
    [][LET WatchOf == <<LC_WATCH_STALE, LC_WATCH_FALSE, LC_WATCH_TRUE, LC_WATCH_ERROR>>
           StateOf == <<LC_APSTATE_ACTION_NOT_USED, LC_APSTATE_ACTIVE,
                        LC_APSTATE_PASSIVE, LC_APSTATE_DISABLED>>
           ResultOf == <<LC_ACTION_STALE, LC_ACTION_PASS, LC_ACTION_FAIL, LC_ACTION_ERROR>>
           Field(Byte, n) == (Byte \div (4 ^ n)) % 4
           UnpackWP(Bytes, i) == WatchOf[Field(Bytes[i \div 4], i % 4) + 1]
           UnpackResult(Bytes, i) == ResultOf[Field(Bytes[i \div 2], 2 * (i % 2)) + 1]
           UnpackState(Bytes, i) == StateOf[Field(Bytes[i \div 2], 2 * (i % 2) + 1) + 1]
           CodeIn(Table, Value) == (CHOOSE c \in 1 .. 4 : Table[c] = Value) - 1
           Reported(State) ==
               IF State = LC_APSTATE_PERMOFF THEN LC_APSTATE_ACTION_NOT_USED ELSE State
       IN  HKRequestHandled =>
             LET Packet == Transmitted'[1]
             IN  /\ \A i \in WPIndices :
                       UnpackWP(Packet.WPResults, i) = WRTPtr[i].WatchResult
                 /\ \A i \in APIndices :
                       /\ UnpackResult(Packet.APResults, i) = ARTPtr[i].ActionResult
                       /\ UnpackState(Packet.APResults, i) = Reported(ARTPtr[i].CurrentState)
                 /\ \A k \in 0 .. (LC_MAX_WATCHPOINTS \div 4 - 1) :
                       Packet.WPResults[k] =
                            CodeIn(WatchOf, WRTPtr[4 * k].WatchResult)
                          + 4 * CodeIn(WatchOf, WRTPtr[4 * k + 1].WatchResult)
                          + 16 * CodeIn(WatchOf, WRTPtr[4 * k + 2].WatchResult)
                          + 64 * CodeIn(WatchOf, WRTPtr[4 * k + 3].WatchResult)
                 /\ \A k \in 0 .. (LC_MAX_ACTIONPOINTS \div 2 - 1) :
                       Packet.APResults[k] =
                            CodeIn(ResultOf, ARTPtr[2 * k].ActionResult)
                          + 4 * CodeIn(StateOf, Reported(ARTPtr[2 * k].CurrentState))
                          + 16 * CodeIn(ResultOf, ARTPtr[2 * k + 1].ActionResult)
                          + 64 * CodeIn(StateOf, Reported(ARTPtr[2 * k + 1].CurrentState))]_vars

(* C23 witness: a packet was transmitted whose eight watch results are not *)
(* all alike and whose bytes are 0x1B and 0xE4 (ERROR, TRUE, FALSE, STALE  *)
(* in watchpoints 0 to 3 and the reverse in 4 to 7).                       *)
C23_Witness ==
    /\ Len(Transmitted) = 1
    /\ WRTPtr[0].WatchResult = LC_WATCH_ERROR
    /\ WRTPtr[3].WatchResult = LC_WATCH_STALE
    /\ WRTPtr[4].WatchResult = LC_WATCH_STALE
    /\ WRTPtr[7].WatchResult = LC_WATCH_ERROR
    /\ Transmitted[1].WPResults[0] = 27
    /\ Transmitted[1].WPResults[1] = 228


(* C24: in the packet of a housekeeping request of valid length, ActiveAPs *)
(* is the number of actionpoints whose CurrentState is ACTIVE when the     *)
(* request is handled, whatever an earlier packet held (it is counted from *)
(* 0 at every request), and equals the number of actionpoint groups of     *)
(* APResults that carry the ACTIVE state code; CmdCount, CmdErrCount,      *)
(* APSampleCount, MonitoredMsgCount, RTSExecCount, PassiveRTSExecCount and *)
(* CurrentLCState of the packet equal the application's values.            *)
C24_ActiveAPsAndScalars ==
    [][HKRequestHandled =>
          LET Packet == Transmitted'[1]
          IN  /\ Packet.ActiveAPs =
                    Cardinality({i \in APIndices :
                                    ARTPtr[i].CurrentState = LC_APSTATE_ACTIVE})
              /\ Packet.ActiveAPs =
                    Cardinality({Group \in (DOMAIN Packet.APResults) \X {0, 1} :
                                    (Packet.APResults[Group[1]]
                                        \div (4 * (16 ^ Group[2]))) % 4 = 1})
              /\ Packet.CmdCount = LC_AppData.CmdCount
              /\ Packet.CmdErrCount = LC_AppData.CmdErrCount
              /\ Packet.APSampleCount = LC_AppData.APSampleCount
              /\ Packet.MonitoredMsgCount = LC_AppData.MonitoredMsgCount
              /\ Packet.RTSExecCount = LC_AppData.RTSExecCount
              /\ Packet.PassiveRTSExecCount = LC_AppData.PassiveRTSExecCount
              /\ Packet.CurrentLCState = LC_AppData.CurrentLCState]_vars

(* C24 witness: a housekeeping request is handled right after another      *)
(* whose packet reported two active actionpoints, with both command        *)
(* counters non-zero, and reports two again.                               *)
C24_Witness ==
    /\ Len(Transmitted) = 1
    /\ Transmitted[1].ActiveAPs = 2
    /\ Transmitted[1].CmdCount = 1
    /\ Transmitted[1].CmdErrCount = 1
    /\ \A i \in APIndices : ARTPtr[i].CurrentState = LC_APSTATE_ACTIVE
    /\ ENABLED (HKRequestHandled /\ Transmitted'[1].ActiveAPs = 2)


(* C25 as stated: every SEND_HK_MID message received, of whatever length,  *)
(* has exactly one housekeeping packet transmitted, and no other message   *)
(* has any.                                                                *)
C25_OnePacketPerHKMessage ==
    [][IF \E len \in BOOLEAN, Env \in HKEnvs : LC_AppPipe(SendHKMsg(len), Env)
       THEN Len(Transmitted') = 1
       ELSE Transmitted' = <<>>]_vars

(* C25 amended: every SEND_HK_MID message of valid length has exactly one  *)
(* packet transmitted, which carries the housekeeping payload, whatever    *)
(* was handled before it; no packet is transmitted on any other message (a *)
(* SEND_HK_MID message of wrong length included).                          *)
C25_OnePacketPerValidHKRequest ==
    [][IF HKRequestHandled
       THEN /\ Len(Transmitted') = 1
            /\ DOMAIN Transmitted'[1] =
                  {"CmdCount", "CmdErrCount", "APSampleCount", "MonitoredMsgCount",
                   "RTSExecCount", "PassiveRTSExecCount", "CurrentLCState",
                   "WPsInUse", "ActiveAPs", "WPResults", "APResults"}
       ELSE Transmitted' = <<>>]_vars

(* C25 witness: a housekeeping packet has been transmitted after a         *)
(* rejected command, and a housekeeping message of wrong length can come   *)
(* next.                                                                   *)
C25_Witness ==
    /\ Len(Transmitted) = 1
    /\ Transmitted[1].CmdErrCount = 2
    /\ ENABLED (\E Env \in HKEnvs : LC_AppPipe(SendHKMsg(FALSE), Env))


(***************************************************************************)
(*                  Properties of the command counters                     *)
(***************************************************************************)

(* C26: CmdCount and CmdErrCount never decrease except through the RESET   *)
(* command, and a counter that is at 2^8 - 1 is left there by a further    *)
(* accepted (rejected) command instead of wrapping to 0.                   *)
C26_CountersSaturate ==
    [][\/ Handles(ResetMsg(TRUE))
       \/ /\ LC_AppData'.CmdCount >= LC_AppData.CmdCount
          /\ LC_AppData'.CmdErrCount >= LC_AppData.CmdErrCount
          /\ LC_AppData.CmdCount = 2 ^ 8 - 1 => LC_AppData'.CmdCount = 2 ^ 8 - 1
          /\ LC_AppData.CmdErrCount = 2 ^ 8 - 1 => LC_AppData'.CmdErrCount = 2 ^ 8 - 1]_vars


(***************************************************************************)
(*                 Properties of the packer's table indices                *)
(***************************************************************************)

(* C27: for every table size, the housekeeping request reads the watch     *)
(* results table only at indices in [0, MaxWatchpoints) and the action     *)
(* results table only at indices in [0, MaxActionpoints), and writes       *)
(* WPResults and APResults only below ceil(MaxWatchpoints / 4) and         *)
(* ceil(MaxActionpoints / 2), sizes that are no multiple of 4 (of 2)       *)
(* included.                                                               *)
C27_IndicesInBounds ==
    [][SizedHousekeepingReq =>
          LET MaxWatchpoints == Cardinality(DOMAIN WRTPtr)
              MaxActionpoints == Cardinality(DOMAIN ARTPtr)
          IN  /\ WRTIndicesRead(MaxWatchpoints) \subseteq 0 .. (MaxWatchpoints - 1)
              /\ ARTIndicesRead(MaxActionpoints) \subseteq 0 .. (MaxActionpoints - 1)
              /\ DOMAIN Transmitted'[1].WPResults
                    \subseteq 0 .. ((MaxWatchpoints + 3) \div 4 - 1)
              /\ DOMAIN Transmitted'[1].APResults
                    \subseteq 0 .. ((MaxActionpoints + 1) \div 2 - 1)]_vars


(***************************************************************************)
(*             Properties of the application state and accounting          *)
(***************************************************************************)

(* C28: while CurrentLCState is DISABLED a sample request, whatever its    *)
(* StartIndex, EndIndex and UpdateAge, changes nothing: no actionpoint     *)
(* result, state or counter, no CountdownToStale, no WatchResult, no       *)
(* application counter, and it raises no event, the range error included.  *)
(* With CurrentLCState PASSIVE or ACTIVE the request is processed: an      *)
(* invalid range raises the range error, a valid one raises none and,      *)
(* with UpdateAge non-zero, decrements every non-zero CountdownToStale.    *)
C28_DisabledIgnoresSample ==
    [][\A start, end \in APNumberArgs, age \in 0 .. 1 :
          \/ IF LC_AppData.CurrentLCState = LC_STATE_DISABLED
             THEN /\ UNCHANGED <<LC_AppData, ARTPtr, WRTPtr>>
                  /\ Events' = <<>>
             ELSE IF \/ start = LC_ALL_ACTIONPOINTS /\ end = LC_ALL_ACTIONPOINTS
                     \/ start <= end /\ end < LC_MAX_ACTIONPOINTS
             THEN /\ \A e \in 1 .. Len(Events') : Events'[e] # SampleRejection
                  /\ age # 0 =>
                        \A w \in WPIndices :
                           WRTPtr[w].CountdownToStale # 0 =>
                              WRTPtr'[w].CountdownToStale = WRTPtr[w].CountdownToStale - 1
             ELSE Events' = <<SampleRejection>>
          \/ ~Handles(SampleAPMsg(TRUE, start, end, age))]_vars

(* C28 witness: the application is DISABLED while watchpoint 0 is TRUE     *)
(* with its countdown running and actionpoint 0 has failed, and a sample   *)
(* request for all actionpoints with UpdateAge set has just been handled   *)
(* or can be, leaving all of it as it is.                                  *)
C28_Witness ==
    /\ LC_AppData.CurrentLCState = LC_STATE_DISABLED
    /\ WRTPtr[0].WatchResult = LC_WATCH_TRUE
    /\ WRTPtr[0].CountdownToStale > 0
    /\ ARTPtr[0].ActionResult = LC_ACTION_FAIL
    /\ Events = <<>>
    /\ ENABLED (/\ Handles(SampleAPMsg(TRUE, LC_ALL_ACTIONPOINTS, LC_ALL_ACTIONPOINTS, 1))
                /\ UNCHANGED <<LC_AppData, ARTPtr, WRTPtr>>)


(* The command messages of valid length other than RESET: every command    *)
(* code and a code that is no command, with every actionpoint argument;    *)
(* of the new states that SET_AP_STATE refuses whatever the actionpoint    *)
(* (NOT_USED, PERMOFF, a byte that is no enumerator) one with one          *)
(* actionpoint; of the watchpoint arguments the first, the last, the first *)
(* past the table and "all".                                               *)
CountedCommandMsgs ==
    {NoopMsg(TRUE), UnknownCCMsg, SetAPStateMsg(TRUE, 0, UndefinedByte)}
    \cup {SetLCStateMsg(TRUE, new) : new \in LCStateArgs}
    \cup {SetAPStateMsg(TRUE, ap, new) :
             ap \in APNumberArgs,
             new \in {LC_APSTATE_ACTIVE, LC_APSTATE_PASSIVE, LC_APSTATE_DISABLED}}
    \cup {SetAPPermOffMsg(TRUE, ap) : ap \in APNumberArgs}
    \cup {ResetAPStatsMsg(TRUE, ap) : ap \in APNumberArgs}
    \cup {ResetWPStatsMsg(TRUE, wp) :
             wp \in {0, LC_MAX_WATCHPOINTS - 1, LC_MAX_WATCHPOINTS, LC_ALL_WATCHPOINTS}}

SetLCStateMsgs == {SetLCStateMsg(len, new) : len \in BOOLEAN, new \in LCStateArgs}

APStateCommandMsgs ==
    SetAPStateMsgs \cup {SetAPPermOffMsg(len, ap) : len \in BOOLEAN, ap \in APNumberArgs}

(* C30: SET_AP_STATE (one actionpoint or all), SET_AP_PERMOFF and          *)
(* SET_LC_STATE, accepted or rejected, leave every field of every          *)
(* actionpoint other than CurrentState as it is (ActionResult and all      *)
(* counters, ConsecutiveFailCount included), leave every watchpoint entry  *)
(* as it is, and leave APSampleCount, MonitoredMsgCount, RTSExecCount and  *)
(* PassiveRTSExecCount as they are; SET_LC_STATE changes no actionpoint's  *)
(* CurrentState, and SET_AP_STATE and SET_AP_PERMOFF do not change         *)
(* CurrentLCState.                                                         *)
C30_StateCommandsFrame ==
    [][/\ \/ /\ \A i \in APIndices :
                   ARTPtr'[i] = [ARTPtr[i] EXCEPT !.CurrentState = ARTPtr'[i].CurrentState]
             /\ WRTPtr' = WRTPtr
             /\ LC_AppData'.APSampleCount = LC_AppData.APSampleCount
             /\ LC_AppData'.MonitoredMsgCount = LC_AppData.MonitoredMsgCount
             /\ LC_AppData'.RTSExecCount = LC_AppData.RTSExecCount
             /\ LC_AppData'.PassiveRTSExecCount = LC_AppData.PassiveRTSExecCount
          \/ \A BufPtr \in SetLCStateMsgs \cup APStateCommandMsgs : ~Handles(BufPtr)
       /\ \/ \A i \in APIndices : ARTPtr'[i].CurrentState = ARTPtr[i].CurrentState
          \/ \A BufPtr \in SetLCStateMsgs : ~Handles(BufPtr)
       /\ \/ LC_AppData'.CurrentLCState = LC_AppData.CurrentLCState
          \/ \A BufPtr \in APStateCommandMsgs : ~Handles(BufPtr)]_vars

(* C30 witness: actionpoint 0, which has failed twice in a row, has been   *)
(* disabled and is active again after two accepted commands, with its      *)
(* result and counters as they were; watchpoint 0 is as it was.            *)
C30_Witness ==
    /\ LC_AppData.CmdCount = 2
    /\ ARTPtr[0].CurrentState = LC_APSTATE_ACTIVE
    /\ ARTPtr[1].CurrentState = LC_APSTATE_PERMOFF
    /\ ARTPtr[0].ActionResult = LC_ACTION_FAIL
    /\ ARTPtr[0].ConsecutiveFailCount = 2
    /\ WRTPtr[0].CountdownToStale = 1
    /\ LC_AppData.RTSExecCount = 1
    /\ Len(Events) = 1
    /\ Events[1] = "LC_APSTATE_INF_EID"


(***************************************************************************)
(*                    Every kind of message on the pipe                    *)
(*                                                                         *)
(* At most one message that is counted (a command, a message of a wrong    *)
(* length or a monitored message) after sample requests and housekeeping   *)
(* requests in any order.                                                  *)
(***************************************************************************)
CommandMsgs ==
    {NoopMsg(len) : len \in BOOLEAN}
    \cup {ResetMsg(len) : len \in BOOLEAN}
    \cup {UnknownCCMsg}
    \cup SetLCStateMsgs
    \cup APStateCommandMsgs
    \cup {ResetAPStatsMsg(len, ap) : len \in BOOLEAN, ap \in APNumberArgs}
    \cup {ResetWPStatsMsg(len, wp) : len \in BOOLEAN, wp \in WPNumberArgs}

SampleAPMsgs ==
    {SampleAPMsg(len, range[1], range[2], age) :
        len \in BOOLEAN, range \in SampleRanges, age \in 0 .. 1}

TelemetryMsgs ==
    {TelemetryMsg(value, len) : value \in TelemetryValues, len \in TelemetryLengths}

NoneCounted ==
    LC_AppData.CmdCount + LC_AppData.CmdErrCount + LC_AppData.MonitoredMsgCount = 0

PipeCommand ==
    /\ NoneCounted
    /\ \E BufPtr \in CommandMsgs : LC_AppPipe(BufPtr, NoEnv) /\ Bounded'

PipeSampleAP ==
    /\ NoneCounted
    /\ \E BufPtr \in SampleAPMsgs : LC_AppPipe(BufPtr, NoEnv) /\ Bounded'

PipeSendHK ==
    /\ NoneCounted
    /\ \E len \in BOOLEAN, env \in HKEnvs : LC_AppPipe(SendHKMsg(len), env) /\ Bounded'

PipeTelemetry ==
    /\ NoneCounted
    /\ \E BufPtr \in TelemetryMsgs : LC_AppPipe(BufPtr, NoEnv) /\ Bounded'

NextPipe == PipeCommand \/ PipeSampleAP \/ PipeSendHK \/ PipeTelemetry

SpecPipe == Init /\ [][NextPipe]_vars


C32_StateDomain ==
    /\ [](/\ LC_AppData.CurrentLCState \in LCStates
          /\ \A ap \in APIndices : ARTPtr[ap].CurrentState \in APStates)
    /\ [][\A ap \in APIndices :
             (ARTPtr'[ap].CurrentState = LC_APSTATE_ACTION_NOT_USED)
                <=> (ARTPtr[ap].CurrentState = LC_APSTATE_ACTION_NOT_USED)]_vars

(* C32 witness: a SET_LC_STATE command carrying a byte that is no state    *)
(* has just been rejected, after a command that was accepted, with one     *)
(* actionpoint NOT_USED and the other DISABLED.                            *)
C32_Witness ==
    /\ Events = <<"LC_LCSTATE_ERR_EID">>
    /\ LC_AppData.CmdCount = 1
    /\ LC_AppData.CmdErrCount = 1
    /\ LC_AppData.CurrentLCState = LC_STATE_PASSIVE
    /\ ARTPtr[0].CurrentState = LC_APSTATE_ACTION_NOT_USED
    /\ ARTPtr[1].CurrentState = LC_APSTATE_DISABLED

=============================================================================
